---- MODULE Spec2Model ----
(***************************************************************************)
(* A model of the GravTile tiling engine: the StateStore registry, the     *)
(* ResizeHandler's neighbour propagation and the TileManager's handlers    *)
(* (snap, removal redistribution, swap, insertion with its overlap         *)
(* correction, gap-fill), over a host that holds the real window frames.   *)
(***************************************************************************)
EXTENDS Integers, Sequences, FiniteSets, TLC

VARIABLES
    windows,          \* StateStore._windows: the Map, as its entries in insertion order
    changeListeners,  \* StateStore._changeListeners
    host,             \* the compositor: frame rect of every window that exists
    workArea,         \* the monitor's work area (GnomeCompat.getWorkArea)
    resize,           \* ResizeHandler's fields
    trace,            \* what the handler that ran last did, in order
    last,             \* the handler that ran last and the state it started from
    budget,           \* user gestures still allowed in this run
    plan,             \* input and output of a calculation (SpecInsert, SpecLayout)
    drag,             \* the fields of the four move detectors during a move grab
    engine,           \* TileManager._enabled and the size of every callback Set
    apps,             \* WM class and resizability of every window (chosen in SpecApps)
    polling           \* the GLib timers of every detector (SpecTimers, SpecLifecycle)

vars == <<windows, changeListeners, host, workArea, resize, trace, last, budget, plan, drag,
          engine, polling, apps>>

-----------------------------------------------------------------------------
(* Configuration: constants.js                                             *)

INNER_GAP == 8
SNAP_THRESHOLD == 50
NEIGHBOR_OVERLAP_MIN == 50
EDGE_TOLERANCE == 10
MIN_WINDOW_WIDTH == 200
MIN_WINDOW_HEIGHT == 100

-----------------------------------------------------------------------------
(* Bounds of the model                                                     *)

MaxWindows == 3
MaxGestures == 4
MaxDrags == 3
MaxResizes == 1
MaxResizesAlone == 2
MaxPulls == 1
MaxStoreCalls == 4
MaxPlanned == 3
MaxRemovals == 1
MaxMoves == 2
MaxDragGestures == 2
MaxLifecycleSteps == 5
MaxLifecycleDrags == 1
MaxGrabEvents == 4
MaxAppGestures == 3
MaxAppDrags == 2
MaxGap == 8
MaxSide == 60
MaxCreateGestures == 4
MaxGapGestures == 2
MaxGapDrags == 1
MaxStaleRemovals == 2

WindowIds == 1..MaxWindows

-----------------------------------------------------------------------------
(* Small helpers                                                           *)

Max(a, b) == IF a >= b THEN a ELSE b
Min(a, b) == IF a <= b THEN a ELSE b
Abs(a) == IF a >= 0 THEN a ELSE -a
\* Math.floor(a / b) for b > 0 and Math.ceil(a / b) for b > 0
Floor(a, b) == a \div b
Ceil(a, b) == -((-a) \div b)
Has(p, f) == f \in DOMAIN p

RECURSIVE SeqSum(_)
SeqSum(s) == IF s = <<>> THEN 0 ELSE Head(s) + SeqSum(Tail(s))

\* Array.prototype.filter
Filter(s, Keep(_)) == SelectSeq(s, Keep)

Range(s) == {s[i] : i \in 1..Len(s)}

Rect(x, y, w, h) == [x |-> x, y |-> y, width |-> w, height |-> h]
\* "null" for a rectangle-valued field
NoRect == Rect(0, 0, -1, -1)
ZeroRect == Rect(0, 0, 0, 0)

-----------------------------------------------------------------------------
(* Geometry.js                                                             *)

hasVerticalOverlap(a, b, minOverlap) ==
    Min(a.y + a.height, b.y + b.height) - Max(a.y, b.y) >= minOverlap

hasHorizontalOverlap(a, b, minOverlap) ==
    Min(a.x + a.width, b.x + b.width) - Max(a.x, b.x) >= minOverlap

getRightEdge(rect) == rect.x + rect.width
getBottomEdge(rect) == rect.y + rect.height

getLeftHalfRectNarrow(wa, gap) ==
    Rect(wa.x + gap, wa.y + gap, Floor(wa.width - gap * 3, 2) - 1, wa.height - gap * 2)

getLeftHalfRect(wa, gap) ==
    Rect(wa.x + gap, wa.y + gap, Floor(wa.width - gap * 3, 2), wa.height - gap * 2)

getRightHalfRectAdjacent(wa, gap) ==
    LET halfWidth == Floor(wa.width - gap * 3, 2)
    IN  Rect(wa.x + gap + halfWidth, wa.y + gap, halfWidth, wa.height - gap * 2)

getRightHalfRect(wa, gap) ==
    LET halfWidth == Floor(wa.width - gap * 3, 2)
    IN  Rect(wa.x + wa.width - halfWidth - gap, wa.y + gap, halfWidth, wa.height - gap * 2)

getMaximizedRect(wa, gap) ==
    Rect(wa.x + gap, wa.y + gap, wa.width - gap * 2, wa.height - gap * 2)

-----------------------------------------------------------------------------
(* StateStore                                                              *)
(* The operations thread a record W = [win, host, tr]: the registry, the   *)
(* host's frames and the events of the running handler.                    *)

EmptyNeighbors == [left |-> <<>>, right |-> <<>>, top |-> <<>>, bottom |-> <<>>]

\* One event of a handler: what happened, to which window, with which rectangle
Ev(k, id, rect) == [k |-> k, id |-> id, rect |-> rect]

IndexOf(win, id) ==
    IF \E i \in 1..Len(win) : win[i].id = id
    THEN CHOOSE i \in 1..Len(win) : win[i].id = id
    ELSE 0

hasWindow(win, id) == IndexOf(win, id) > 0
getWindow(win, id) == win[IndexOf(win, id)]
StoreIds(win) == {win[i].id : i \in 1..Len(win)}

\* A change subscriber is a callback; the one called "thrower" throws whenever
\* it is invoked
Throws(cb) == cb = "thrower"

\* The loop without its try/catch: the first exception ends the delivery and
\* leaves _notifyChange
RECURSIVE DeliverUncaught(_, _)
DeliverUncaught(tr, callbacks) ==
    IF callbacks = <<>> THEN tr
    ELSE IF Throws(Head(callbacks)) THEN Append(tr, Ev("thrown", 0, NoRect))
    ELSE DeliverUncaught(Append(tr, Ev("notify", 0, NoRect)), Tail(callbacks))

\* for (const cb of this._changeListeners) { try { cb(); } catch (e) { log } }
RECURSIVE Deliver(_, _)
Deliver(tr, callbacks) ==
    IF callbacks = <<>> THEN tr
    ELSE Deliver(Append(tr, Ev(IF Throws(Head(callbacks)) THEN "caught" ELSE "notify",
                               0, NoRect)),
                 Tail(callbacks))

_notifyChangeUncaught(W) == [W EXCEPT !.tr = DeliverUncaught(@, changeListeners)]

_notifyChange(W) == [W EXCEPT !.tr = Deliver(@, changeListeners)]

setWindowReplacing(W, id, state) ==
    LET i == IndexOf(W.win, id)
        ex == i > 0
        windowState == [
            id |-> id,
            rect |-> IF Has(state, "rect") THEN state.rect ELSE ZeroRect,
            originalRect |-> IF Has(state, "originalRect") THEN state.originalRect ELSE NoRect,
            zone |-> IF Has(state, "zone") THEN state.zone ELSE "none",
            isTiled |-> IF Has(state, "isTiled") THEN state.isTiled ELSE FALSE,
            neighbors |-> IF Has(state, "neighbors") THEN state.neighbors ELSE EmptyNeighbors]
        written == [W EXCEPT
            !.win = IF ex THEN [@ EXCEPT ![i] = windowState] ELSE Append(@, windowState),
            !.tr = Append(@, Ev(IF Has(state, "rect") THEN "setRect" ELSE "set", id, windowState.rect))]
    IN  _notifyChange(written)

setWindow(W, id, state) ==
    LET i == IndexOf(W.win, id)
        ex == i > 0
        existing == W.win[i]
        windowState == [
            id |-> id,
            rect |-> IF Has(state, "rect") THEN state.rect
                     ELSE IF ex THEN existing.rect ELSE ZeroRect,
            originalRect |-> IF Has(state, "originalRect") /\ state.originalRect # NoRect
                             THEN state.originalRect
                             ELSE IF ex THEN existing.originalRect ELSE NoRect,
            zone |-> IF Has(state, "zone") THEN state.zone
                     ELSE IF ex THEN existing.zone ELSE "none",
            isTiled |-> IF Has(state, "isTiled") THEN state.isTiled
                        ELSE IF ex THEN existing.isTiled ELSE FALSE,
            neighbors |-> IF Has(state, "neighbors") THEN state.neighbors
                          ELSE IF ex THEN existing.neighbors ELSE EmptyNeighbors]
        written == [W EXCEPT
            !.win = IF ex THEN [@ EXCEPT ![i] = windowState] ELSE Append(@, windowState),
            !.tr = Append(@, Ev(IF Has(state, "rect") THEN "setRect" ELSE "set", id, windowState.rect))]
    IN  _notifyChange(written)

_removeFromNeighborsNone(win, removedId) == win

_removeFromNeighbors(win, removedId) ==
    LET Other(id) == id # removedId
    IN  [i \in 1..Len(win) |->
            [win[i] EXCEPT !.neighbors = [
                left |-> Filter(@.left, Other),
                right |-> Filter(@.right, Other),
                top |-> Filter(@.top, Other),
                bottom |-> Filter(@.bottom, Other)]]]

removeWindowUnguarded(W, id) ==
    LET NotIt(w) == w.id # id
        deleted == Filter(W.win, NotIt)
    IN  _notifyChange([W EXCEPT
            !.win = _removeFromNeighbors(deleted, id),
            !.tr = Append(@, Ev("delete", id, NoRect))])

removeWindow(W, id) ==
    IF hasWindow(W.win, id)
    THEN LET NotIt(w) == w.id # id
             deleted == Filter(W.win, NotIt)
         IN  _notifyChange([W EXCEPT
                 !.win = _removeFromNeighbors(deleted, id),
                 !.tr = Append(@, Ev("delete", id, NoRect))])
    ELSE W

getTiledWindows(win) ==
    LET Tiled(w) == w.isTiled
    IN  Filter(win, Tiled)

\* The same with the left side found by touching edges alone
_findNeighborsLeftByEdge(window, allWindows) ==
    LET wRect == window.rect
        IsRight(o) == /\ o.id # window.id
                      /\ Abs(getRightEdge(wRect) - o.rect.x) <= EDGE_TOLERANCE
                      /\ hasVerticalOverlap(wRect, o.rect, NEIGHBOR_OVERLAP_MIN)
        IsLeft(o) == /\ o.id # window.id
                     /\ Abs(wRect.x - getRightEdge(o.rect)) <= EDGE_TOLERANCE
        IsBottom(o) == /\ o.id # window.id
                       /\ Abs(getBottomEdge(wRect) - o.rect.y) <= EDGE_TOLERANCE
                       /\ hasHorizontalOverlap(wRect, o.rect, NEIGHBOR_OVERLAP_MIN)
        IsTop(o) == /\ o.id # window.id
                    /\ Abs(wRect.y - getBottomEdge(o.rect)) <= EDGE_TOLERANCE
                    /\ hasHorizontalOverlap(wRect, o.rect, NEIGHBOR_OVERLAP_MIN)
        Ids(s) == [i \in 1..Len(s) |-> s[i].id]
    IN  [left |-> Ids(Filter(allWindows, IsLeft)),
         right |-> Ids(Filter(allWindows, IsRight)),
         top |-> Ids(Filter(allWindows, IsTop)),
         bottom |-> Ids(Filter(allWindows, IsBottom))]

_findNeighbors(window, allWindows) ==
    LET wRect == window.rect
        IsRight(o) == /\ o.id # window.id
                      /\ Abs(getRightEdge(wRect) - o.rect.x) <= EDGE_TOLERANCE
                      /\ hasVerticalOverlap(wRect, o.rect, NEIGHBOR_OVERLAP_MIN)
        IsLeft(o) == /\ o.id # window.id
                     /\ Abs(wRect.x - getRightEdge(o.rect)) <= EDGE_TOLERANCE
                     /\ hasVerticalOverlap(wRect, o.rect, NEIGHBOR_OVERLAP_MIN)
        IsBottom(o) == /\ o.id # window.id
                       /\ Abs(getBottomEdge(wRect) - o.rect.y) <= EDGE_TOLERANCE
                       /\ hasHorizontalOverlap(wRect, o.rect, NEIGHBOR_OVERLAP_MIN)
        IsTop(o) == /\ o.id # window.id
                    /\ Abs(wRect.y - getBottomEdge(o.rect)) <= EDGE_TOLERANCE
                    /\ hasHorizontalOverlap(wRect, o.rect, NEIGHBOR_OVERLAP_MIN)
        Ids(s) == [i \in 1..Len(s) |-> s[i].id]
    IN  [left |-> Ids(Filter(allWindows, IsLeft)),
         right |-> Ids(Filter(allWindows, IsRight)),
         top |-> Ids(Filter(allWindows, IsTop)),
         bottom |-> Ids(Filter(allWindows, IsBottom))]

recalculateNeighbors(W) ==
    LET win == W.win
        tiledWindows == getTiledWindows(win)
        Recalc(w) == IF w.isTiled
                     THEN [w EXCEPT !.neighbors = _findNeighbors(w, tiledWindows)]
                     ELSE w
    IN  [W EXCEPT
            !.win = [i \in 1..Len(win) |-> Recalc(win[i])],
            !.tr = Append(@, Ev("recalc", 0, NoRect))]

\* getNeighbors(windowId, direction): the listed ids that still resolve
getNeighbors(win, windowId, direction) ==
    IF ~hasWindow(win, windowId) THEN <<>>
    ELSE LET Resolves(id) == hasWindow(win, id)
             ids == Filter(getWindow(win, windowId).neighbors[direction], Resolves)
         IN  [i \in 1..Len(ids) |-> getWindow(win, ids[i])]

clear(W) == _notifyChange([W EXCEPT !.win = <<>>, !.tr = Append(@, Ev("clear", 0, NoRect))])

-----------------------------------------------------------------------------
(* The host (GnomeCompat over Mutter)                                      *)

\* The smallest width the host lets a window have (its size hints): a request
\* for less is silently overridden.
HostMinWidth(id) == IF id = 3 THEN 700 ELSE 1

\* TileManager._findMetaWindow, ResizeHandler._getMetaWindow and the
\* existingIds filters: the window is still on the workspace
_findMetaWindow(W, id) == id \in DOMAIN W.host

getWindowRect(W, id) == W.host[id]

moveResizeWindow(W, id, rect) ==
    [W EXCEPT
        !.host[id] = [rect EXCEPT !.width = Max(rect.width, HostMinWidth(id))],
        !.tr = Append(@, Ev("move", id, rect))]

\* Array.prototype.sort((a, b) => a.rect.x - b.rect.x), which is stable
RECURSIVE SortByX(_)
SortByX(s) ==
    IF Len(s) <= 1 THEN s
    ELSE LET e == s[Len(s)]
             front == SortByX(SubSeq(s, 1, Len(s) - 1))
             NotAfter(o) == o.rect.x <= e.rect.x
             k == Len(SelectSeq(front, NotAfter))
         IN  SubSeq(front, 1, k) \o <<e>> \o SubSeq(front, k + 1, Len(front))

-----------------------------------------------------------------------------
(* LayoutEngine                                                            *)

_getQuadrant(wa, horizontal, vertical, gap) ==
    LET halfWidth == Floor(wa.width - gap * 3, 2)
        halfHeight == Floor(wa.height - gap * 3, 2)
        x == IF horizontal = "left" THEN wa.x + gap
             ELSE wa.x + wa.width - halfWidth - gap
        y == IF vertical = "top" THEN wa.y + gap
             ELSE wa.y + wa.height - halfHeight - gap
    IN  Rect(x, y, halfWidth, halfHeight)

calculateSnapRect(zone, wa) ==
    LET gap == INNER_GAP
    IN  CASE zone = "left" -> getLeftHalfRect(wa, gap)
          [] zone = "right" -> getRightHalfRect(wa, gap)
          [] zone \in {"top", "maximize"} -> getMaximizedRect(wa, gap)
          [] zone = "left-top" -> _getQuadrant(wa, "left", "top", gap)
          [] zone = "right-top" -> _getQuadrant(wa, "right", "top", gap)
          [] zone = "left-bottom" -> _getQuadrant(wa, "left", "bottom", gap)
          [] zone = "right-bottom" -> _getQuadrant(wa, "right", "bottom", gap)
          [] OTHER -> getMaximizedRect(wa, gap)

\* calculateThirdRect and calculateTwoThirdsRect with CONFIG.INNER_GAP as gap
calculateThirdRect(wa, gap, position) ==
    LET thirdWidth == Floor(wa.width - gap * 4, 3)
        x == CASE position = "left" -> wa.x + gap
               [] position = "center" -> wa.x + gap * 2 + thirdWidth
               [] position = "right" -> wa.x + gap * 3 + thirdWidth * 2
    IN  Rect(x, wa.y + gap, thirdWidth, wa.height - gap * 2)

calculateTwoThirdsRect(wa, gap, side) ==
    LET thirdWidth == Floor(wa.width - gap * 4, 3)
        twoThirdsWidth == thirdWidth * 2 + gap
        x == IF side = "left" THEN wa.x + gap
             ELSE wa.x + wa.width - twoThirdsWidth - gap
    IN  Rect(x, wa.y + gap, twoThirdsWidth, wa.height - gap * 2)

\* Every rectangle the layout calculator can produce, by name
LayoutNames ==
    {"left", "right", "top", "maximize",
     "left-top", "right-top", "left-bottom", "right-bottom",
     "third-left", "third-center", "third-right",
     "two-thirds-left", "two-thirds-right"}

layoutRect(name, wa, gap) ==
    CASE name = "left" -> getLeftHalfRect(wa, gap)
      [] name = "right" -> getRightHalfRect(wa, gap)
      [] name \in {"top", "maximize"} -> getMaximizedRect(wa, gap)
      [] name = "left-top" -> _getQuadrant(wa, "left", "top", gap)
      [] name = "right-top" -> _getQuadrant(wa, "right", "top", gap)
      [] name = "left-bottom" -> _getQuadrant(wa, "left", "bottom", gap)
      [] name = "right-bottom" -> _getQuadrant(wa, "right", "bottom", gap)
      [] name = "third-left" -> calculateThirdRect(wa, gap, "left")
      [] name = "third-center" -> calculateThirdRect(wa, gap, "center")
      [] name = "third-right" -> calculateThirdRect(wa, gap, "right")
      [] name = "two-thirds-left" -> calculateTwoThirdsRect(wa, gap, "left")
      [] name = "two-thirds-right" -> calculateTwoThirdsRect(wa, gap, "right")

-----------------------------------------------------------------------------
(* TileManager                                                             *)

_onSnapDetected(W, windowId, zone) ==
    LET targetRect == calculateSnapRect(zone, workArea)
        originalRect == getWindowRect(W, windowId)
        W1 == setWindow(W, windowId, [rect |-> targetRect, originalRect |-> originalRect,
                                      zone |-> zone, isTiled |-> TRUE])
        W2 == moveResizeWindow(W1, windowId, targetRect)
    IN  recalculateNeighbors(W2)

\* The width every window gets in an equal distribution of n windows
EqualWidthNoGaps(n, wa, gap) == Floor(wa.width, n)

EqualWidth(n, wa, gap) ==
    LET totalGaps == gap * (n + 1)
        availableWidth == wa.width - totalGaps
    IN  Floor(availableWidth, n)

\* The loop of _redistributeAfterRemoval over tiledWindows
RECURSIVE RedistributeLoop(_, _, _, _)
RedistributeLoop(W, tiledWindows, currentX, windowWidth) ==
    IF tiledWindows = <<>> THEN W
    ELSE LET id == Head(tiledWindows).id
             gap == INNER_GAP
             rect == Rect(currentX, workArea.y + gap, windowWidth, workArea.height - gap * 2)
             W1 == setWindow(W, id, [rect |-> rect])
             W2 == IF _findMetaWindow(W1, id) THEN moveResizeWindow(W1, id, rect) ELSE W1
         IN  RedistributeLoop(W2, Tail(tiledWindows), currentX + windowWidth + gap, windowWidth)

_redistributeAfterRemoval(W) ==
    LET tiledWindows == getTiledWindows(W.win)
        gap == INNER_GAP
    IN  IF Len(tiledWindows) = 0 THEN W
        ELSE IF ~_findMetaWindow(W, tiledWindows[1].id) THEN W
        ELSE recalculateNeighbors(
                RedistributeLoop([W EXCEPT !.tr = Append(@, Ev("redistribute", 0, NoRect))],
                                 tiledWindows, workArea.x + gap,
                                 EqualWidth(Len(tiledWindows), workArea, gap)))

_onWindowRemoved(W, id) ==
    LET wasTiled == hasWindow(W.win, id) /\ getWindow(W.win, id).isTiled
        W1 == removeWindow(W, id)
    IN  IF wasTiled THEN _redistributeAfterRemoval(W1) ELSE W1

untileWindow(W, windowId) ==
    IF ~hasWindow(W.win, windowId) \/ getWindow(W.win, windowId).originalRect = NoRect THEN W
    ELSE IF ~_findMetaWindow(W, windowId) THEN W
    ELSE LET W1 == moveResizeWindow(W, windowId, getWindow(W.win, windowId).originalRect)
         IN  _redistributeAfterRemoval(removeWindow(W1, windowId))

\* A swap that exchanges the rectangles and leaves the zones alone
_onSwapDetectedRectsOnly(W, event) ==
    IF ~_findMetaWindow(W, event.targetWindowId) THEN W
    ELSE recalculateNeighbors(
             setWindow(
                 setWindow(
                     moveResizeWindow(
                         moveResizeWindow(W, event.draggedWindow, event.draggedTargetRect),
                         event.targetWindowId, event.targetNewRect),
                     event.draggedWindow, [rect |-> event.draggedTargetRect]),
                 event.targetWindowId, [rect |-> event.targetNewRect]))

\* event = [draggedWindow, targetWindowId, draggedTargetRect, targetNewRect]
_onSwapDetected(W, event) ==
    LET draggedWindowId == event.draggedWindow
        targetWindowId == event.targetWindowId
        hasDragged == hasWindow(W.win, draggedWindowId)
        hasTarget == hasWindow(W.win, targetWindowId)
        draggedZone == IF hasDragged THEN getWindow(W.win, draggedWindowId).zone ELSE "swapped"
        targetZone == IF hasTarget THEN getWindow(W.win, targetWindowId).zone ELSE "swapped"
        W1 == moveResizeWindow(W, draggedWindowId, event.draggedTargetRect)
        W2 == moveResizeWindow(W1, targetWindowId, event.targetNewRect)
        W3 == IF hasDragged
              THEN setWindow(W2, draggedWindowId,
                             [rect |-> event.draggedTargetRect, zone |-> targetZone])
              ELSE W2
        W4 == IF hasTarget
              THEN setWindow(W3, targetWindowId,
                             [rect |-> event.targetNewRect, zone |-> draggedZone])
              ELSE W3
    IN  IF ~_findMetaWindow(W, targetWindowId) THEN W
        ELSE recalculateNeighbors(W4)

_onGapFillDetected(W, windowId, gapRect) ==
    LET W1 == moveResizeWindow(W, windowId, gapRect)
        W2 == setWindow(W1, windowId, [rect |-> gapRect,
                                       originalRect |-> getWindowRect(W1, windowId),
                                       zone |-> "gap-fill", isTiled |-> TRUE])
    IN  recalculateNeighbors(W2)

\* A marker in the event list: the handler (or pass) k starts for window id
Mark(W, k, id) == [W EXCEPT !.tr = Append(@, Ev(k, id, NoRect))]

\* The same for a handler that tiles the window id: the marker keeps the frame
\* the host window has when the handler starts
MarkFrame(W, k, id) == [W EXCEPT !.tr = Append(@, Ev(k, id, getWindowRect(W, id)))]

\* _correctLayoutOverlaps: the windows as read from the host, sorted by x
ActualWindows(W, primaryWindowId) ==
    LET Exists(w) == _findMetaWindow(W, w.id)
        tiledStates == Filter(getTiledWindows(W.win), Exists)
    IN  SortByX([i \in 1..Len(tiledStates) |->
                    [id |-> tiledStates[i].id,
                     rect |-> getWindowRect(W, tiledStates[i].id),
                     isPrimary |-> tiledStates[i].id = primaryWindowId]])

needsCorrection(actualWindows, gap) ==
    \E i \in 1..(Len(actualWindows) - 1) :
        LET current == actualWindows[i]
            next == actualWindows[i + 1]
            actualGap == next.rect.x - (current.rect.x + current.rect.width)
        IN  actualGap < gap - 5

\* The repositioning loop of _correctLayoutOverlaps
RECURSIVE RepositionLoop(_, _, _)
RepositionLoop(W, actualWindows, currentX) ==
    IF actualWindows = <<>> THEN W
    ELSE LET win == Head(actualWindows)
             newRect == Rect(currentX, win.rect.y, win.rect.width, win.rect.height)
             W1 == IF Abs(currentX - win.rect.x) > 2
                   THEN setWindow(moveResizeWindow(W, win.id, newRect), win.id, [rect |-> newRect])
                   ELSE W
         IN  RepositionLoop(W1, Tail(actualWindows), currentX + win.rect.width + INNER_GAP)

\* How many nested passes of the correction the model follows
MaxCorrectionPasses == 4

\* Lines 771-790: the primary window gives up the overflow, and the correction
\* starts over (Shrunk is the registry and host after the shrink)
shrinkPrimary(W, primary, overflow) ==
    setWindow(moveResizeWindow(W, primary.id,
                               [primary.rect EXCEPT !.width = primary.rect.width - overflow]),
              primary.id,
              [rect |-> [primary.rect EXCEPT !.width = primary.rect.width - overflow]])

RECURSIVE CorrectPass(_, _, _)
RECURSIVE CorrectActual(_, _, _, _)

\* A correction that shrinks the primary window and leaves it at that
CorrectActualOnce(W, actualWindows, primaryWindowId, fuel) ==
    LET gap == INNER_GAP
        totalUsed == workArea.x + gap
                     + SeqSum([i \in 1..Len(actualWindows) |-> actualWindows[i].rect.width + gap])
                     - gap
        overflow == totalUsed - (workArea.x + workArea.width)
        IsPrimary(w) == w.isPrimary
        primaries == Filter(actualWindows, IsPrimary)
    IN  IF Len(actualWindows) < 2 THEN W
        ELSE IF ~needsCorrection(actualWindows, gap) THEN W
        ELSE IF overflow > 0 /\ primaries # <<>>
                /\ primaries[1].rect.width > overflow + MIN_WINDOW_WIDTH
             THEN shrinkPrimary(RepositionLoop(W, actualWindows, workArea.x + gap),
                                primaries[1], overflow)
             ELSE RepositionLoop(W, actualWindows, workArea.x + gap)

\* One call of _correctLayoutOverlaps on the frames it has read
CorrectActual(W, actualWindows, primaryWindowId, fuel) ==
    LET gap == INNER_GAP
        totalUsed == workArea.x + gap
                     + SeqSum([i \in 1..Len(actualWindows) |-> actualWindows[i].rect.width + gap])
                     - gap
        overflow == totalUsed - (workArea.x + workArea.width)
        IsPrimary(w) == w.isPrimary
        primaries == Filter(actualWindows, IsPrimary)
    IN  IF Len(actualWindows) < 2 THEN W
        ELSE IF ~needsCorrection(actualWindows, gap) THEN W
        ELSE IF overflow > 0 /\ primaries # <<>>
                /\ primaries[1].rect.width > overflow + MIN_WINDOW_WIDTH
             THEN CorrectPass(shrinkPrimary(RepositionLoop(W, actualWindows, workArea.x + gap),
                                            primaries[1], overflow),
                              primaryWindowId, fuel - 1)
             ELSE RepositionLoop(W, actualWindows, workArea.x + gap)

CorrectPass(W, primaryWindowId, fuel) ==
    IF fuel = 0 THEN Mark(W, "unbounded", primaryWindowId)
    ELSE CorrectActual(Mark(W, "correct", primaryWindowId),
                       ActualWindows(W, primaryWindowId), primaryWindowId, fuel)

_correctLayoutOverlaps(W, primaryWindowId) ==
    CorrectPass(W, primaryWindowId, MaxCorrectionPasses)

\* _onInsertDetected, lines 569-613: the planned widths of the new window and
\* of the existing windows (widths: theirs now, left to right)
newWindowWidth(n, waWidth, gap) ==
    LET totalWindows == n + 1
        totalGapSpace == gap * 2 + gap * (totalWindows - 1)
        availableWidth == waWidth - totalGapSpace
    IN  Max(MIN_WINDOW_WIDTH, Floor(availableWidth, totalWindows))

\* Math.floor(width * scaleFactor), scaleFactor = remainingWidth / currentTotalWidth,
\* in exact arithmetic
scaledWidth(width, remainingWidth, currentTotalWidth) ==
    Floor(width * remainingWidth, currentTotalWidth)

shrunkWidthNoMin(width, shrinkPerWindow) ==
    IF width > MIN_WINDOW_WIDTH THEN width - shrinkPerWindow ELSE width

shrunkWidth(width, shrinkPerWindow) ==
    IF width > MIN_WINDOW_WIDTH
    THEN Max(MIN_WINDOW_WIDTH, width - shrinkPerWindow)
    ELSE width

\* A planner that leaves the existing windows at the widths they have
windowWidthsKept(widths, waWidth, gap) == widths

windowWidths(widths, waWidth, gap) ==
    LET n == Len(widths)
        availableWidth == waWidth - (gap * 2 + gap * n)
        newWidth == newWindowWidth(n, waWidth, gap)
        currentTotalWidth == SeqSum(widths)
        remainingWidth == availableWidth - newWidth
        scaled == [i \in 1..n |-> scaledWidth(widths[i], remainingWidth, currentTotalWidth)]
        enforced == [i \in 1..n |-> Max(MIN_WINDOW_WIDTH, scaled[i])]
        windowsAtMinWidth == Cardinality({i \in 1..n : scaled[i] < MIN_WINDOW_WIDTH})
        excessWidth == (SeqSum(enforced) + newWidth) - availableWidth
        windowsToShrink == n - windowsAtMinWidth
        shrinkPerWindow == Ceil(excessWidth, windowsToShrink)
    IN  IF excessWidth > 0 /\ windowsAtMinWidth < n
        THEN [i \in 1..n |-> shrunkWidth(enforced[i], shrinkPerWindow)]
        ELSE enforced

\* lines 617-625: the slot of the new window among the sorted existing ones (0-based)
insertIndex(tiledWindows, position) ==
    LET Before(i) == 2 * position < 2 * tiledWindows[i].rect.x + tiledWindows[i].rect.width
    IN  IF \E i \in 1..Len(tiledWindows) : Before(i)
        THEN (CHOOSE i \in 1..Len(tiledWindows) :
                  Before(i) /\ \A j \in 1..(i - 1) : ~Before(j)) - 1
        ELSE Len(tiledWindows)

\* lines 627-671: the loop that places the n+1 windows, i = 0..n
RECURSIVE InsertLoop(_, _, _, _, _, _, _)
InsertLoop(W, insertedWindowId, tiledWindows, widths, index, i, currentX) ==
    LET gap == INNER_GAP
        totalWindows == Len(tiledWindows) + 1
        windowIndex == IF i > index THEN i - 1 ELSE i
        width == IF i = index THEN newWindowWidth(Len(tiledWindows), workArea.width, gap)
                 ELSE widths[windowIndex + 1]
        rect == Rect(currentX, workArea.y + gap, width, workArea.height - gap * 2)
        tiled == tiledWindows[windowIndex + 1]
        W1 == IF i = index
              THEN LET M == moveResizeWindow(W, insertedWindowId, rect)
                   IN  setWindow(M, insertedWindowId,
                                 [rect |-> rect, originalRect |-> getWindowRect(M, insertedWindowId),
                                  zone |-> "inserted", isTiled |-> TRUE])
              ELSE IF _findMetaWindow(W, tiled.id)
                   THEN setWindow(moveResizeWindow(W, tiled.id, rect), tiled.id, [rect |-> rect])
                   ELSE W
    IN  IF i >= totalWindows THEN W
        ELSE InsertLoop(W1, insertedWindowId, tiledWindows, widths, index, i + 1,
                        currentX + width + gap)

\* zonePosition: event.zone.position, the x of the boundary
_onInsertDetected(W, insertedWindowId, zonePosition) ==
    LET gap == INNER_GAP
        Others(w) == w.id # insertedWindowId /\ _findMetaWindow(W, w.id)
        tiledWindows == SortByX(Filter(getTiledWindows(W.win), Others))
        maxRect == calculateSnapRect("maximize", workArea)
        M == moveResizeWindow(W, insertedWindowId, maxRect)
        widths == windowWidths([i \in 1..Len(tiledWindows) |-> tiledWindows[i].rect.width],
                               workArea.width, gap)
        placed == InsertLoop(W, insertedWindowId, tiledWindows, widths,
                             insertIndex(tiledWindows, zonePosition), 0, workArea.x + gap)
    IN  IF Len(tiledWindows) = 0
        THEN setWindow(M, insertedWindowId,
                       [rect |-> maxRect, originalRect |-> getWindowRect(M, insertedWindowId),
                        zone |-> "maximize", isTiled |-> TRUE])
        ELSE _correctLayoutOverlaps(recalculateNeighbors(placed), insertedWindowId)

-----------------------------------------------------------------------------
(* ResizeHandler                                                           *)
(* R = [resizingWindow, resizingWindowId, lastRect, resizeDirection,       *)
(* pollTimeoutId]; 0, NoRect and "" stand for null.                        *)

IdleResize == [resizingWindow |-> 0, resizingWindowId |-> 0, lastRect |-> NoRect,
               resizeDirection |-> "", pollTimeoutId |-> 0]

_getResizeEdges(grabOp) ==
    [left |-> grabOp \in {"NW", "W", "SW"},
     right |-> grabOp \in {"NE", "E", "SE"},
     top |-> grabOp \in {"NW", "N", "NE"},
     bottom |-> grabOp \in {"SW", "S", "SE"}]

\* The revert branch of _adjustRightNeighbors and _adjustLeftNeighbors
constrainResizing(W, R, neighborId) ==
    IF R.resizingWindow # 0 /\ R.lastRect # NoRect
    THEN LET constrainedRect == R.lastRect
             W0 == [W EXCEPT !.tr = Append(@, Ev("revert", neighborId, constrainedRect))]
         IN  setWindow(moveResizeWindow(W0, R.resizingWindow, constrainedRect),
                       R.resizingWindowId, [rect |-> constrainedRect])
    ELSE [W EXCEPT !.tr = Append(@, Ev("revert", neighborId, NoRect))]

\* moveResizeWindow, raiseWindow and setWindow of one adjusted neighbour
adjustNeighbor(W, kind, neighborId, newRect) ==
    LET W0 == [W EXCEPT !.tr = Append(@, Ev(kind, neighborId, newRect))]
    IN  setWindow(moveResizeWindow(W0, neighborId, newRect), neighborId, [rect |-> newRect])

RECURSIVE AdjustRightLoop(_, _, _, _)
AdjustRightLoop(W, R, neighbors, delta) ==
    IF neighbors = <<>> THEN W
    ELSE LET neighbor == Head(neighbors)
             newNeighborWidth == neighbor.rect.width - delta
             maxDelta == neighbor.rect.width - MIN_WINDOW_WIDTH
             W1 == IF ~_findMetaWindow(W, neighbor.id) THEN W
                   ELSE IF newNeighborWidth < MIN_WINDOW_WIDTH /\ delta > 0
                   THEN IF maxDelta <= 0
                        THEN constrainResizing(W, R, neighbor.id)
                        ELSE adjustNeighbor(W, "adjustH", neighbor.id,
                                 [neighbor.rect EXCEPT !.x = neighbor.rect.x + maxDelta,
                                                       !.width = MIN_WINDOW_WIDTH])
                   ELSE adjustNeighbor(W, "adjustH", neighbor.id,
                            [neighbor.rect EXCEPT !.x = neighbor.rect.x + delta,
                                                  !.width = newNeighborWidth])
         IN  AdjustRightLoop(W1, R, Tail(neighbors), delta)

_adjustRightNeighbors(W, R, delta) ==
    AdjustRightLoop(W, R, getNeighbors(W.win, R.resizingWindowId, "right"), delta)

RECURSIVE AdjustLeftLoop(_, _, _, _)
AdjustLeftLoop(W, R, neighbors, delta) ==
    IF neighbors = <<>> THEN W
    ELSE LET neighbor == Head(neighbors)
             newNeighborWidth == neighbor.rect.width + delta
             W1 == IF ~_findMetaWindow(W, neighbor.id) THEN W
                   ELSE IF newNeighborWidth < MIN_WINDOW_WIDTH /\ delta < 0
                   THEN IF neighbor.rect.width <= MIN_WINDOW_WIDTH
                        THEN constrainResizing(W, R, neighbor.id)
                        ELSE adjustNeighbor(W, "adjustH", neighbor.id,
                                 [neighbor.rect EXCEPT !.width = MIN_WINDOW_WIDTH])
                   ELSE adjustNeighbor(W, "adjustH", neighbor.id,
                            [neighbor.rect EXCEPT !.width = newNeighborWidth])
         IN  AdjustLeftLoop(W1, R, Tail(neighbors), delta)

_adjustLeftNeighbors(W, R, delta) ==
    AdjustLeftLoop(W, R, getNeighbors(W.win, R.resizingWindowId, "left"), delta)

RECURSIVE AdjustBottomLoop(_, _, _, _)
AdjustBottomLoop(W, R, neighbors, delta) ==
    IF neighbors = <<>> THEN W
    ELSE LET neighbor == Head(neighbors)
             newRect == [neighbor.rect EXCEPT !.y = neighbor.rect.y + delta,
                                              !.height = neighbor.rect.height - delta]
             W1 == IF ~_findMetaWindow(W, neighbor.id) THEN W
                   ELSE IF newRect.height < MIN_WINDOW_HEIGHT THEN W
                   ELSE adjustNeighbor(W, "adjustV", neighbor.id, newRect)
         IN  AdjustBottomLoop(W1, R, Tail(neighbors), delta)

_adjustBottomNeighbors(W, R, delta) ==
    AdjustBottomLoop(W, R, getNeighbors(W.win, R.resizingWindowId, "bottom"), delta)

RECURSIVE AdjustTopLoop(_, _, _, _)
AdjustTopLoop(W, R, neighbors, delta) ==
    IF neighbors = <<>> THEN W
    ELSE LET neighbor == Head(neighbors)
             newRect == [neighbor.rect EXCEPT !.height = neighbor.rect.height + delta]
             W1 == IF ~_findMetaWindow(W, neighbor.id) THEN W
                   ELSE IF newRect.height < MIN_WINDOW_HEIGHT THEN W
                   ELSE adjustNeighbor(W, "adjustV", neighbor.id, newRect)
         IN  AdjustTopLoop(W1, R, Tail(neighbors), delta)

_adjustTopNeighbors(W, R, delta) ==
    AdjustTopLoop(W, R, getNeighbors(W.win, R.resizingWindowId, "top"), delta)

\* One of the four steps "if (edges.e && deltaE !== 0) this._adjustENeighbors(deltaE)"
adjustIfMoved(W, R, moved, direction, delta) ==
    IF ~moved \/ delta = 0 THEN W
    ELSE IF direction = "right" THEN _adjustRightNeighbors(W, R, delta)
    ELSE IF direction = "left" THEN _adjustLeftNeighbors(W, R, delta)
    ELSE IF direction = "bottom" THEN _adjustBottomNeighbors(W, R, delta)
    ELSE _adjustTopNeighbors(W, R, delta)

\* The tick once currentRect has been read from the host
updateFrom(W, R, currentRect) ==
    LET edges == _getResizeEdges(R.resizeDirection)
        deltaLeft == currentRect.x - R.lastRect.x
        deltaRight == (currentRect.x + currentRect.width) - (R.lastRect.x + R.lastRect.width)
        deltaTop == currentRect.y - R.lastRect.y
        deltaBottom == (currentRect.y + currentRect.height) - (R.lastRect.y + R.lastRect.height)
    IN  setWindow(
            adjustIfMoved(
                adjustIfMoved(
                    adjustIfMoved(
                        adjustIfMoved(W, R, edges.right, "right", deltaRight),
                        R, edges.left, "left", deltaLeft),
                    R, edges.bottom, "bottom", deltaBottom),
                R, edges.top, "top", deltaTop),
            R.resizingWindowId, [rect |-> currentRect])

\* The registry and host after one polling tick (the new _lastRect is the
\* rectangle read from the host at the start of the tick)
_handleResizeUpdate(W, R) ==
    IF R.resizingWindow = 0 \/ R.lastRect = NoRect \/ R.resizingWindowId = 0 THEN W
    ELSE updateFrom(W, R, getWindowRect(W, R.resizingWindow))

_handleResizeComplete(W, windowId) ==
    recalculateNeighbors(setWindow(W, windowId, [rect |-> getWindowRect(W, windowId)]))

\* ResizeHandler._onGrabEnd for the resizing window: the final update, then the
\* resize-complete callback TileManager.enable registered (_correctLayoutOverlaps)
RECURSIVE _emitResizeComplete(_, _, _)
_emitResizeComplete(W, windowId, callbacks) ==
    IF callbacks = 0 THEN W
    ELSE _emitResizeComplete(
             _correctLayoutOverlaps(Mark(W, "resizeComplete", windowId), windowId),
             windowId, callbacks - 1)

resizeGrabEnd(W, R) ==
    IF R.resizingWindowId # 0
    THEN _emitResizeComplete(_handleResizeComplete(W, R.resizingWindow), R.resizingWindowId,
                             engine.callbacks["resizeComplete"])
    ELSE _handleResizeComplete(W, R.resizingWindow)

-----------------------------------------------------------------------------
(* The detectors: what each one has found when the grab ends at a cursor   *)

NoZone == "none"

_detectZone(x, y, wa, threshold) ==
    LET left == x < wa.x + threshold
        right == x > wa.x + wa.width - threshold
        top == y < wa.y + threshold
        bottom == y > wa.y + wa.height - threshold
    IN  IF left /\ top THEN "left-top"
        ELSE IF right /\ top THEN "right-top"
        ELSE IF left /\ bottom THEN "left-bottom"
        ELSE IF right /\ bottom THEN "right-bottom"
        ELSE IF top THEN "top"
        ELSE IF left THEN "left"
        ELSE IF right THEN "right"
        ELSE NoZone

_isInEdgeZone(x, y) ==
    \/ x < workArea.x + SNAP_THRESHOLD
    \/ x > workArea.x + workArea.width - SNAP_THRESHOLD
    \/ y < workArea.y + SNAP_THRESHOLD

\* _isPointInRect(getCenter(currentRect), rect); the centre's coordinates may
\* be halves, so both sides are doubled
centerInRect(currentRect, rect) ==
    LET cx2 == 2 * currentRect.x + currentRect.width
        cy2 == 2 * currentRect.y + currentRect.height
    IN  /\ cx2 >= 2 * rect.x
        /\ cx2 <= 2 * (rect.x + rect.width)
        /\ cy2 >= 2 * rect.y
        /\ cy2 <= 2 * (rect.y + rect.height)

\* SwapDetector._checkForSwap: the first tiled window, in registry order, that
\* holds the centre of the dragged frame; 0 for none
_checkForSwap(W, draggedWindowId) ==
    LET currentRect == getWindowRect(W, draggedWindowId)
        Hit(t) == t.id # draggedWindowId /\ centerInRect(currentRect, t.rect)
        hits == Filter(getTiledWindows(W.win), Hit)
    IN  IF hits = <<>> THEN 0 ELSE hits[1].id

\* InsertDetector._findInsertZone: [found, position]
_findInsertZone(cursorX, tiledWindows, draggedWindowId) ==
    LET threshold == 20
        RightSeam(win) ==
            /\ Abs(cursorX - getRightEdge(win.rect)) < threshold
            /\ \E j \in 1..Len(tiledWindows) :
                   /\ tiledWindows[j].id \notin {draggedWindowId, win.id}
                   /\ Abs(tiledWindows[j].rect.x - getRightEdge(win.rect)) < INNER_GAP * 2
        LeftSeam(win) ==
            /\ Abs(cursorX - win.rect.x) < threshold
            /\ \E j \in 1..Len(tiledWindows) :
                   /\ tiledWindows[j].id \notin {draggedWindowId, win.id}
                   /\ Abs(getRightEdge(tiledWindows[j].rect) - win.rect.x) < INNER_GAP * 2
        AtSeam(win) == win.id # draggedWindowId /\ (RightSeam(win) \/ LeftSeam(win))
        seams == Filter(tiledWindows, AtSeam)
    IN  IF seams = <<>> THEN [found |-> FALSE, position |-> 0]
        ELSE [found |-> TRUE,
              position |-> IF RightSeam(seams[1]) THEN getRightEdge(seams[1].rect)
                           ELSE seams[1].rect.x]

\* InsertDetector._checkForInsertZone
_checkForInsertZone(W, draggedWindowId, cursor) ==
    LET tiledWindows == getTiledWindows(W.win)
    IN  IF Len(tiledWindows) = 0 \/ _isInEdgeZone(cursor.x, cursor.y)
        THEN [found |-> FALSE, position |-> 0]
        ELSE _findInsertZone(cursor.x, tiledWindows, draggedWindowId)

\* GapDetector._findGapAtCursor: [found, rect]
_findGapAtCursor(cursorX, cursorY, unsorted) ==
    LET gap == INNER_GAP
        tiledWindows == SortByX(unsorted)
        n == Len(tiledWindows)
        Inside(i) == /\ cursorX >= tiledWindows[i].rect.x
                     /\ cursorX <= tiledWindows[i].rect.x + tiledWindows[i].rect.width
                     /\ cursorY >= tiledWindows[i].rect.y
                     /\ cursorY <= tiledWindows[i].rect.y + tiledWindows[i].rect.height
        GapRect(from, to) == Rect(from, workArea.y + gap, to - from, workArea.height - gap * 2)
        Usable(from, to) == to - from >= MIN_WINDOW_WIDTH /\ cursorX >= from /\ cursorX <= to
        leftGapStart == workArea.x + gap
        leftGapEnd == tiledWindows[1].rect.x - gap
        gapStart(i) == getRightEdge(tiledWindows[i].rect) + gap
        gapEnd(i) == tiledWindows[i + 1].rect.x - gap
        between == {i \in 1..(n - 1) : Usable(gapStart(i), gapEnd(i))}
        first == CHOOSE i \in between : \A j \in between : i <= j
        rightGapStart == getRightEdge(tiledWindows[n].rect) + gap
        rightGapEnd == workArea.x + workArea.width - gap
    IN  IF \E i \in 1..n : Inside(i) THEN [found |-> FALSE, rect |-> NoRect]
        ELSE IF n > 0 /\ Usable(leftGapStart, leftGapEnd)
        THEN [found |-> TRUE, rect |-> GapRect(leftGapStart, leftGapEnd)]
        ELSE IF between # {}
        THEN [found |-> TRUE, rect |-> GapRect(gapStart(first), gapEnd(first))]
        ELSE IF n > 0 /\ Usable(rightGapStart, rightGapEnd)
        THEN [found |-> TRUE, rect |-> GapRect(rightGapStart, rightGapEnd)]
        ELSE [found |-> FALSE, rect |-> NoRect]

\* GapDetector._checkForGap
_checkForGap(W, draggedWindowId, cursor) ==
    LET Others(w) == _findMetaWindow(W, w.id) /\ w.id # draggedWindowId
        tiledWindows == Filter(getTiledWindows(W.win), Others)
    IN  IF _isInEdgeZone(cursor.x, cursor.y) \/ Len(tiledWindows) = 0
        THEN [found |-> FALSE, rect |-> NoRect]
        ELSE _findGapAtCursor(cursor.x, cursor.y, tiledWindows)

\* SwapDetector._performSwap, delivered to TileManager._onSwapDetected
_performSwap(W, draggedWindowId, potentialSwapTarget, dragStartRect) ==
    IF ~hasWindow(W.win, potentialSwapTarget) \/ ~hasWindow(W.win, draggedWindowId) THEN W
    ELSE _onSwapDetected([W EXCEPT !.tr = Append(@, Ev("swap", draggedWindowId, NoRect))],
             [draggedWindow |-> draggedWindowId,
              targetWindowId |-> potentialSwapTarget,
              draggedTargetRect |-> getWindow(W.win, potentialSwapTarget).rect,
              targetNewRect |-> dragStartRect])

-----------------------------------------------------------------------------
(* The extension on one monitor: windows, the user's gestures, the handlers *)

WorkAreas == {Rect(64, 32, 1920, 1048)}

\* Where a window floats before it is first tiled
FloatRect(id) == Rect(200 + 60 * id, 150 + 40 * id, Max(640, HostMinWidth(id)), 480)

\* Cursor positions at which a move grab is released, relative to the work area
CursorOffsets ==
    {[x |-> 10, y |-> 500],      \* left edge
     [x |-> 1910, y |-> 500],    \* right edge
     [x |-> 960, y |-> 10],      \* top edge
     [x |-> 1910, y |-> 10],     \* right-top corner
     [x |-> 1910, y |-> 1040],   \* right-bottom corner
     [x |-> 480, y |-> 300],     \* inside the left half
     [x |-> 1440, y |-> 300],    \* inside the right half
     [x |-> 960, y |-> 300]}     \* on the middle seam

CursorPoints == {[x |-> workArea.x + o.x, y |-> workArea.y + o.y] : o \in CursorOffsets}

ResizeOps == {"E", "W", "S", "N"}
ResizeDeltas == {-850, -450, -100, 100, 450, 800}

\* The frame of a window dragged by its title bar to the cursor
DragTo(rect, cursor) ==
    [rect EXCEPT !.x = cursor.x - (rect.width \div 2), !.y = cursor.y - 10]

\* The frame after the user has pulled the grabbed edge by d
Pulled(rect, grabOp, d) ==
    LET edges == _getResizeEdges(grabOp)
    IN  [x |-> IF edges.left THEN rect.x + d ELSE rect.x,
         y |-> IF edges.top THEN rect.y + d ELSE rect.y,
         width |-> IF edges.left THEN rect.width - d
                   ELSE IF edges.right THEN rect.width + d ELSE rect.width,
         height |-> IF edges.top THEN rect.height - d
                    ELSE IF edges.bottom THEN rect.height + d ELSE rect.height]

InWorkArea(rect) ==
    /\ rect.x >= workArea.x
    /\ rect.y >= workArea.y
    /\ getRightEdge(rect) <= workArea.x + workArea.width
    /\ getBottomEdge(rect) <= workArea.y + workArea.height

Budget(g, d, r, m) ==
    [gestures |-> g, drags |-> d, resizes |-> r, removals |-> m, pulls |-> 0, moves |-> 0]
Left == budget.gestures
NoPlan == [widths |-> <<>>, waWidth |-> 0, newWidth |-> 0, result |-> <<>>]
World == [win |-> windows, host |-> host, tr |-> <<>>]
Last(op, id) == [op |-> op, id |-> id, pre |-> windows, preResize |-> resize, kept |-> {}, state |-> <<>>]

\* The right neighbours a tick has to shrink by the whole movement: the right
\* edge of the resizing window has moved by delta > 0 and the neighbour stays
\* at or above the minimum width
ShrinksWhole(W, R) ==
    LET currentRect == getWindowRect(W, R.resizingWindow)
        delta == getRightEdge(currentRect) - getRightEdge(R.lastRect)
        neighbors == getNeighbors(W.win, R.resizingWindowId, "right")
    IN  IF _getResizeEdges(R.resizeDirection).right /\ delta > 0
        THEN {neighbors[i].id : i \in {j \in 1..Len(neighbors) :
                    /\ _findMetaWindow(W, neighbors[j].id)
                    /\ neighbors[j].rect.width - delta >= MIN_WINDOW_WIDTH}}
        ELSE {}

\* No move grab is in progress: SnapDetector._grabbedWindow and _currentZone,
\* SwapDetector._draggedWindow, _dragStartRect and _potentialSwapTarget,
\* InsertDetector._currentInsertZone, GapDetector._currentGapZone; pointer is
\* what global.get_pointer() returns
\* What the engine reads of an application window: get_wm_class() ("" is
\* null) and allows_resize().  Every window of the model is of type NORMAL.
PlainApp == [wmClass |-> "firefox", resizable |-> TRUE]
PlainApps == [id \in WindowIds |-> PlainApp]

AppKinds ==
    {PlainApp,
     [wmClass |-> "org.gnome.Calculator", resizable |-> TRUE],
     [wmClass |-> "Org.Gnome.Settings", resizable |-> TRUE],
     [wmClass |-> "", resizable |-> TRUE],
     [wmClass |-> "dialog", resizable |-> FALSE]}

\* String.prototype.toLowerCase on the classes of the model
toLowerCase(str) ==
    CASE str = "org.gnome.Calculator" -> "org.gnome.calculator"
      [] str = "Org.Gnome.Settings" -> "org.gnome.settings"
      [] str = "org.gnome.Settings" -> "org.gnome.settings"
      [] OTHER -> str

EXCLUDED_APPS == {"org.gnome.Calculator", "org.gnome.Settings", "gnome-screenshot"}

\* wmClass.toLowerCase().includes(excluded.toLowerCase()): of the classes of
\* the model, none contains an excluded identifier as a proper part
_isExcludedApp(wmClass) ==
    \E excluded \in EXCLUDED_APPS : toLowerCase(wmClass) = toLowerCase(excluded)

_shouldTrack(app) == app.resizable /\ app.wmClass # ""

\* _redistributeWindows of the variant with auto-tiling: the tiled windows
\* and the new one share the work area equally, the new one at the end
_redistributeWindows(W, newWindowId) ==
    LET tiledWindows == getTiledWindows(W.win)
        gap == INNER_GAP
        totalWindows == Len(tiledWindows) + 1
        windowWidth == EqualWidth(totalWindows, workArea, gap)
        newRect == Rect(workArea.x + gap + Len(tiledWindows) * (windowWidth + gap),
                        workArea.y + gap, windowWidth, workArea.height - gap * 2)
    IN  moveResizeWindow(
            setWindow(RedistributeLoop([W EXCEPT !.tr = Append(@, Ev("redistribute", 0, NoRect))],
                                       tiledWindows, workArea.x + gap, windowWidth),
                      newWindowId,
                      [rect |-> newRect, originalRect |-> getWindowRect(W, newWindowId),
                       zone |-> "auto", isTiled |-> TRUE]),
            newWindowId, newRect)

_autoTileWindow(W, id) ==
    IF Len(getTiledWindows(W.win)) = 0
    THEN LET rect == calculateSnapRect("maximize", workArea)
         IN  recalculateNeighbors(
                 moveResizeWindow(
                     setWindow(W, id, [rect |-> rect, originalRect |-> getWindowRect(W, id),
                                       zone |-> "maximize", isTiled |-> TRUE]),
                     id, rect))
    ELSE recalculateNeighbors(_redistributeWindows(W, id))

\* TileManager._onWindowCreated: isManaged is set and read by nothing else;
\* the variant without auto-tiling ends there
_onWindowCreated(W, id, wmClass, autoTileEnabled) ==
    IF _isExcludedApp(wmClass) THEN W
    ELSE IF autoTileEnabled THEN _autoTileWindow(Mark(W, "autoTile", id), id)
    ELSE W

\* The components that poll while a grab lasts.  P = [window, timeoutId, live,
\* started]: the tracked window reference (_grabbedWindow, _draggedWindow,
\* _resizingWindow; 0 is null), the stored timer id (_debounceTimeoutId,
\* _pollTimeoutId; 0 is none), the GLib sources of this component that exist,
\* and how many it has created (GLib never hands out an id twice)
Detectors == {"snap", "swap", "insert", "gap", "resize"}

IdleDetector == [window |-> 0, timeoutId |-> 0, live |-> {}, started |-> 0]
IdlePolling == [d \in Detectors |-> IdleDetector]

\* this._pollTimeoutId = GLib.timeout_add(...): the stored id is overwritten
_startPolling(P) ==
    [P EXCEPT !.timeoutId = P.started + 1,
              !.live = @ \cup {P.started + 1},
              !.started = @ + 1]

_stopPolling(P) ==
    IF P.timeoutId # 0
    THEN [P EXCEPT !.live = @ \ {P.timeoutId}, !.timeoutId = 0]
    ELSE P

\* The early returns of each _onGrabBegin
Tracks(win, d, w, grabOp) ==
    CASE d \in {"snap", "insert", "gap"} -> grabOp = "MOVING"
      [] d = "swap" -> grabOp = "MOVING" /\ hasWindow(win, w) /\ getWindow(win, w).isTiled
      [] d = "resize" -> grabOp # "MOVING" /\ hasWindow(win, w) /\ getWindow(win, w).isTiled

pollingGrabBegin(P, win, d, w, grabOp) ==
    IF Tracks(win, d, w, grabOp) THEN _startPolling([P EXCEPT !.window = w]) ELSE P

pollingGrabEnd(P, w) ==
    IF w # P.window THEN P ELSE [_stopPolling(P) EXCEPT !.window = 0]

pollingDisable(P) == [_stopPolling(P) EXCEPT !.window = 0]

\* The callback of a timer: it removes its own source when nothing is tracked
poll(P, id) == IF P.window = 0 THEN [P EXCEPT !.live = @ \ {id}] ELSE P

\* The callback Sets TileManager.enable adds one closure to
ObserverSets ==
    {"windowCreated", "windowRemoved", "windowFocused",
     "snapDetected", "zoneChanged",
     "swapDetected", "potentialSwapChanged",
     "insertDetected", "insertZoneChanged",
     "gapFillDetected", "gapZoneChanged",
     "resizeComplete"}

\* The Sets the disable() of their component clears: ResizeHandler.disable
\* leaves _onResizeComplete as it is
ClearedOnDisable == ObserverSets \ {"resizeComplete"}

\* After the constructor, and after the constructor and one enable()
\* (_autoTileEnabled = false is the field initialiser of the variant of
\* TileManager that has auto-tiling)
ConstructedEngine ==
    [enabled |-> FALSE, callbacks |-> [s \in ObserverSets |-> 0], autoTileEnabled |-> FALSE,
     swapOverlayVisible |-> FALSE]
EnabledEngine ==
    [enabled |-> TRUE, callbacks |-> [s \in ObserverSets |-> 1], autoTileEnabled |-> FALSE,
     swapOverlayVisible |-> FALSE]

IdleDrag ==
    [window |-> 0, currentZone |-> NoZone,
     swapDragged |-> 0, dragStartRect |-> NoRect, potentialSwapTarget |-> 0,
     currentInsertZone |-> [found |-> FALSE, position |-> 0],
     currentGapZone |-> [found |-> FALSE, rect |-> NoRect],
     pointer |-> [x |-> 0, y |-> 0]]

Init ==
    /\ windows = <<>>
    /\ changeListeners = <<"subscriber">>
    /\ host = [id \in WindowIds |-> FloatRect(id)]
    /\ workArea \in WorkAreas
    /\ resize = IdleResize
    /\ trace = <<>>
    /\ last = [op |-> "init", id |-> 0, pre |-> <<>>, preResize |-> IdleResize, kept |-> {}, state |-> <<>>]
    /\ budget = Budget(MaxGestures, MaxDrags, MaxResizes, MaxRemovals)
    /\ plan = NoPlan
    /\ drag = IdleDrag
    /\ engine = EnabledEngine
    /\ polling = IdlePolling
    /\ apps = PlainApps

snapIf(W, w, zone) ==
    IF zone # NoZone THEN _onSnapDetected(MarkFrame(W, "snap", w), w, zone) ELSE W

swapIf(W, w, potentialSwapTarget, inEdgeZone, dragStartRect) ==
    IF potentialSwapTarget # 0 /\ ~inEdgeZone
    THEN _performSwap(W, w, potentialSwapTarget, dragStartRect)
    ELSE W

insertIf(W, w, insertZone) ==
    IF insertZone.found
    THEN _onInsertDetected(MarkFrame(W, "insert", w), w, insertZone.position)
    ELSE W

gapFillIf(W, w, gapZone) ==
    IF gapZone.found
    THEN _onGapFillDetected(MarkFrame(W, "gapfill", w), w, gapZone.rect)
    ELSE W

\* The handlers that run, in the order TileManager.enable connected the
\* detectors, when the move grab of window w ends at the cursor; W0 holds the
\* frame the window was dragged to
releaseHandlers(W0, w, cursor) ==
    gapFillIf(
        insertIf(
            swapIf(
                snapIf(W0, w, _detectZone(cursor.x, cursor.y, workArea, SNAP_THRESHOLD)),
                w,
                IF hasWindow(W0.win, w) /\ getWindow(W0.win, w).isTiled
                THEN _checkForSwap(W0, w) ELSE 0,
                _isInEdgeZone(cursor.x, cursor.y),
                IF hasWindow(W0.win, w) THEN getWindow(W0.win, w).rect ELSE NoRect),
            w, _checkForInsertZone(W0, w, cursor)),
        w, _checkForGap(W0, w, cursor))

\* The handler's result becomes the state
Commit(W) ==
    /\ windows' = W.win
    /\ host' = W.host
    /\ trace' = W.tr

\* Windows that were never tiled are taken in the order of their ids
Fresh(w) == w \in DOMAIN host /\ ~hasWindow(windows, w)

\* A release that runs no handler is followed only for windows of the registry
CommitRelease(W, w) ==
    /\ W.tr # <<>> \/ hasWindow(windows, w)
    /\ Commit(W)

DragRelease(w, cursor) ==
    /\ engine.enabled
    /\ budget.drags > 0 /\ Left > 0
    /\ resize.resizingWindow = 0 /\ drag.window = 0
    /\ w \in DOMAIN host
    /\ Fresh(w) => \A v \in 1..(w - 1) : ~Fresh(v)
    /\ CommitRelease(releaseHandlers([World EXCEPT !.host[w] = DragTo(@, cursor)], w, cursor), w)
    /\ last' = Last("release", w)
    /\ budget' = [budget EXCEPT !.drags = @ - 1, !.gestures = @ - 1]
    /\ UNCHANGED <<changeListeners, workArea, resize, plan, drag, engine, polling, apps>>

ResizeGrabBegin(w, grabOp) ==
    /\ engine.enabled
    /\ resize.resizingWindow = 0 /\ drag.window = 0
    /\ budget.resizes > 0 /\ Left > 0
    /\ w \in DOMAIN host
    /\ hasWindow(windows, w) /\ getWindow(windows, w).isTiled
    /\ resize' = [resizingWindow |-> w, resizingWindowId |-> w,
                  lastRect |-> getWindowRect(World, w),
                  resizeDirection |-> grabOp, pollTimeoutId |-> 1]
    /\ trace' = <<>>
    /\ last' = Last("grabBegin", w)
    /\ budget' = [budget EXCEPT !.resizes = @ - 1, !.gestures = @ - 1, !.pulls = MaxPulls]
    /\ UNCHANGED <<windows, changeListeners, host, workArea, plan, drag, engine, polling, apps>>

UserResize(d) ==
    /\ resize.resizingWindow # 0
    /\ budget.pulls > 0
    /\ LET w == resize.resizingWindow
           pulled == Pulled(host[w], resize.resizeDirection, d)
       IN  /\ InWorkArea(pulled)
           /\ pulled.width >= HostMinWidth(w)
           /\ pulled.height >= 1
           /\ host' = [host EXCEPT ![w] = pulled]
           /\ last' = [Last("pull", w) EXCEPT !.kept = last.kept]
    /\ trace' = <<>>
    /\ budget' = [budget EXCEPT !.pulls = @ - 1]
    /\ UNCHANGED <<windows, changeListeners, workArea, resize, plan, drag, engine, polling, apps>>

\* Ticks that change nothing are not followed
CommitTick(W) ==
    /\ \/ W.win # windows
       \/ W.host # host
       \/ resize.lastRect # getWindowRect(World, resize.resizingWindow)
    /\ Commit(W)

ResizeTick ==
    /\ resize.pollTimeoutId # 0
    /\ CommitTick(_handleResizeUpdate(World, resize))
    /\ resize' = [resize EXCEPT !.lastRect = getWindowRect(World, resize.resizingWindow)]
    /\ last' = [Last("tick", resize.resizingWindowId) EXCEPT
                    !.kept = last.kept \cup ShrinksWhole(World, resize)]
    /\ UNCHANGED <<changeListeners, workArea, budget, plan, drag, engine, polling, apps>>

ResizeGrabEnd ==
    /\ resize.resizingWindow # 0
    /\ Commit(resizeGrabEnd(World, resize))
    /\ resize' = IdleResize
    /\ last' = [Last("grabEnd", resize.resizingWindowId) EXCEPT !.kept = last.kept]
    /\ budget' = [budget EXCEPT !.pulls = 0]
    /\ UNCHANGED <<changeListeners, workArea, plan, drag, engine, polling, apps>>

\* The window closes: WindowTracker._onWindowUnmanaging, then _onWindowRemoved,
\* for a window the tracker has connected its 'unmanaging' handler to
DestroyWindow(w) ==
    /\ budget.removals > 0 /\ Left > 0
    /\ w \in DOMAIN host
    /\ resize.resizingWindow # w
    /\ drag.window # w
    /\ IF _shouldTrack(apps[w])
       THEN Commit(_onWindowRemoved([World EXCEPT !.host = [id \in DOMAIN host \ {w} |-> host[id]]], w))
       ELSE Commit([World EXCEPT !.host = [id \in DOMAIN host \ {w} |-> host[id]]])
    /\ last' = Last("removed", w)
    /\ budget' = [budget EXCEPT !.removals = @ - 1, !.gestures = @ - 1]
    /\ UNCHANGED <<changeListeners, workArea, resize, plan, drag, engine, polling, apps>>

Untile(w) ==
    /\ budget.removals > 0 /\ Left > 0
    /\ resize.resizingWindow = 0
    /\ hasWindow(windows, w)
    /\ Commit(untileWindow(World, w))
    /\ last' = Last("untile", w)
    /\ budget' = [budget EXCEPT !.removals = @ - 1, !.gestures = @ - 1]
    /\ UNCHANGED <<changeListeners, workArea, resize, plan, drag, engine, polling, apps>>

\* The layouts the resize propagation is studied on: windows 1, 2, ... snapped
\* one after the other at these cursor offsets
SnappedLayouts ==
    {<<[x |-> 10, y |-> 500], [x |-> 1910, y |-> 500]>>,
     <<[x |-> 10, y |-> 500], [x |-> 1910, y |-> 10], [x |-> 1910, y |-> 1040]>>}

Arranged(W) == windows = W.win /\ host = W.host

RECURSIVE Snapped(_, _, _)
Snapped(W, offsets, w) ==
    IF w > Len(offsets) THEN W
    ELSE LET cursor == [x |-> workArea.x + offsets[w].x, y |-> workArea.y + offsets[w].y]
         IN  Snapped(releaseHandlers([W EXCEPT !.host[w] = DragTo(@, cursor)], w, cursor),
                     offsets, w + 1)

InitResize ==
    /\ changeListeners = <<"subscriber">>
    /\ workArea \in WorkAreas
    /\ \E offsets \in SnappedLayouts :
           Arranged(Snapped([win |-> <<>>, host |-> [id \in WindowIds |-> FloatRect(id)],
                             tr |-> <<>>], offsets, 1))
    /\ resize = IdleResize
    /\ trace = <<>>
    /\ last = [op |-> "init", id |-> 0, pre |-> <<>>, preResize |-> IdleResize, kept |-> {}, state |-> <<>>]
    /\ budget = Budget(MaxResizesAlone, 0, MaxResizesAlone, 0)
    /\ plan = NoPlan
    /\ drag = IdleDrag
    /\ engine = EnabledEngine
    /\ polling = IdlePolling
    /\ apps = PlainApps

NextResize ==
    \/ \E w \in WindowIds : \E grabOp \in ResizeOps : ResizeGrabBegin(w, grabOp)
    \/ \E d \in ResizeDeltas : UserResize(d)
    \/ ResizeTick
    \/ ResizeGrabEnd

SpecResize == InitResize /\ [][NextResize]_vars

-----------------------------------------------------------------------------
(* A resize of a snapped layout, then a drag of one of its windows          *)

InitGap ==
    /\ changeListeners = <<"subscriber">>
    /\ workArea \in WorkAreas
    /\ \E offsets \in SnappedLayouts :
           Arranged(Snapped([win |-> <<>>, host |-> [id \in WindowIds |-> FloatRect(id)],
                             tr |-> <<>>], offsets, 1))
    /\ resize = IdleResize
    /\ trace = <<>>
    /\ last = [op |-> "init", id |-> 0, pre |-> <<>>, preResize |-> IdleResize, kept |-> {}, state |-> <<>>]
    /\ budget = Budget(MaxGapGestures, MaxGapDrags, MaxResizes, 0)
    /\ plan = NoPlan
    /\ drag = IdleDrag
    /\ engine = EnabledEngine
    /\ polling = IdlePolling
    /\ apps = PlainApps

NextGap ==
    \/ \E w \in WindowIds : \E grabOp \in ResizeOps : ResizeGrabBegin(w, grabOp)
    \/ \E d \in ResizeDeltas : UserResize(d)
    \/ ResizeTick
    \/ ResizeGrabEnd
    \/ \E w \in WindowIds : \E cursor \in CursorPoints : DragRelease(w, cursor)

SpecGap == InitGap /\ [][NextGap]_vars

-----------------------------------------------------------------------------
(* The registry on its own: any caller, any order of calls                 *)

\* The subscribers of the registry: one that returns and one that throws
Callbacks == {"subscriber", "thrower"}

StoreRects ==
    {calculateSnapRect(zone, wa) : zone \in {"left", "right", "right-top"}, wa \in WorkAreas}

\* What a caller passes to setWindow when it does not pass neighbors
StorePartials ==
    {[rect |-> r, isTiled |-> TRUE] : r \in StoreRects}
    \cup {[rect |-> r] : r \in StoreRects}
    \cup {[isTiled |-> t] : t \in BOOLEAN}
    \cup {[zone |-> "left"], [originalRect |-> FloatRect(1)], [originalRect |-> NoRect]}

InitStore ==
    /\ windows = <<>>
    /\ changeListeners = <<>>
    /\ host = [id \in WindowIds |-> FloatRect(id)]
    /\ workArea \in WorkAreas
    /\ resize = IdleResize
    /\ trace = <<>>
    /\ last = [op |-> "init", id |-> 0, pre |-> <<>>, preResize |-> IdleResize, kept |-> {}, state |-> <<>>]
    /\ budget = Budget(MaxStoreCalls, 0, 0, 0)
    /\ plan = NoPlan
    /\ drag = IdleDrag
    /\ engine = EnabledEngine
    /\ polling = IdlePolling
    /\ apps = PlainApps

StoreCall(op, id, W) ==
    /\ budget.gestures > 0
    /\ windows' = W.win
    /\ trace' = W.tr
    /\ last' = Last(op, id)
    /\ budget' = [budget EXCEPT !.gestures = @ - 1]
    /\ UNCHANGED <<changeListeners, host, workArea, resize, plan, drag, engine, polling, apps>>

StoreSetWindow(id, state) ==
    /\ budget.gestures > 0
    /\ windows' = setWindow(World, id, state).win
    /\ trace' = setWindow(World, id, state).tr
    /\ last' = [Last("setWindow", id) EXCEPT !.state = state]
    /\ budget' = [budget EXCEPT !.gestures = @ - 1]
    /\ UNCHANGED <<changeListeners, host, workArea, resize, plan, drag, engine, polling, apps>>

StoreRemoveWindow(id) == StoreCall("removeWindow", id, removeWindow(World, id))

StoreRecalculateNeighbors == StoreCall("recalculateNeighbors", 0, recalculateNeighbors(World))

StoreClear == StoreCall("clear", 0, clear(World))

onChange(callback) ==
    /\ budget.gestures > 0
    /\ changeListeners' = IF \E i \in 1..Len(changeListeners) : changeListeners[i] = callback
                        THEN changeListeners
                        ELSE Append(changeListeners, callback)
    /\ trace' = <<>>
    /\ last' = Last("onChange", 0)
    /\ budget' = [budget EXCEPT !.gestures = @ - 1]
    /\ UNCHANGED <<windows, host, workArea, resize, plan, drag, engine, polling, apps>>

offChange(callback) ==
    /\ budget.gestures > 0
    /\ changeListeners' = LET Other(cb) == cb # callback
                        IN  SelectSeq(changeListeners, Other)
    /\ trace' = <<>>
    /\ last' = Last("offChange", 0)
    /\ budget' = [budget EXCEPT !.gestures = @ - 1]
    /\ UNCHANGED <<windows, host, workArea, resize, plan, drag, engine, polling, apps>>

NextStore ==
    \/ \E id \in WindowIds : \E state \in StorePartials : StoreSetWindow(id, state)
    \/ \E id \in WindowIds : StoreRemoveWindow(id)
    \/ StoreRecalculateNeighbors
    \/ StoreClear
    \/ \E callback \in Callbacks : onChange(callback)
    \/ \E callback \in Callbacks : offChange(callback)

SpecStore == InitStore /\ [][NextStore]_vars

\* The callers of the registry keep calling it: a call that can be made is
\* made
SpecStoreFair == InitStore /\ [][NextStore]_vars /\ WF_vars(NextStore)

-----------------------------------------------------------------------------
(* The width planner of _onInsertDetected on its own                       *)

PlannedWidths == {100, 200, 300, 629, 948, 1304}
PlannedWorkAreaWidths == {800, 1000, 1920, 2560}

\* The widths of 1..MaxPlanned tiled windows that fit the work area side by side
PlannerInputs ==
    {[widths |-> ws, waWidth |-> w, newWidth |-> 0, result |-> <<>>] :
        ws \in {q \in UNION {[1..n -> PlannedWidths] : n \in 1..MaxPlanned} : TRUE},
        w \in PlannedWorkAreaWidths}

Fits(p) == SeqSum(p.widths) + INNER_GAP * (Len(p.widths) + 1) <= p.waWidth

InitInsert ==
    /\ windows = <<>>
    /\ changeListeners = <<>>
    /\ host = [id \in WindowIds |-> FloatRect(id)]
    /\ workArea \in WorkAreas
    /\ resize = IdleResize
    /\ trace = <<>>
    /\ last = [op |-> "init", id |-> 0, pre |-> <<>>, preResize |-> IdleResize, kept |-> {}, state |-> <<>>]
    /\ budget = Budget(0, 0, 0, 0)
    /\ plan \in {p \in PlannerInputs : Fits(p)}
    /\ drag = IdleDrag
    /\ engine = EnabledEngine
    /\ polling = IdlePolling
    /\ apps = PlainApps

PlanInsert ==
    /\ plan.result = <<>>
    /\ plan' = [plan EXCEPT
           !.newWidth = newWindowWidth(Len(plan.widths), plan.waWidth, INNER_GAP),
           !.result = windowWidths(plan.widths, plan.waWidth, INNER_GAP)]
    /\ UNCHANGED <<windows, changeListeners, host, workArea, resize, trace, last, budget, drag, engine, polling, apps>>

NextInsert == PlanInsert

SpecInsert == InitInsert /\ [][NextInsert]_vars

-----------------------------------------------------------------------------
(* The layout calculator on its own: any work area, any gap                *)

\* Square work areas of every small side, and the two full-size ones
LayoutWorkAreas ==
    {Rect(64, 32, side, side) : side \in 0..MaxSide}
    \cup {Rect(0, 0, 1920, 1080), Rect(64, 32, 1920, 1048)}

NoLayout == [name |-> "", gap |-> 0, rect |-> NoRect]

InitLayout ==
    /\ windows = <<>>
    /\ changeListeners = <<>>
    /\ host = [id \in WindowIds |-> FloatRect(id)]
    /\ workArea \in LayoutWorkAreas
    /\ resize = IdleResize
    /\ trace = <<>>
    /\ last = [op |-> "init", id |-> 0, pre |-> <<>>, preResize |-> IdleResize, kept |-> {}, state |-> <<>>]
    /\ budget = Budget(1, 0, 0, 0)
    /\ plan = NoLayout
    /\ drag = IdleDrag
    /\ engine = EnabledEngine
    /\ polling = IdlePolling
    /\ apps = PlainApps

CalculateLayout(name, gap) ==
    /\ plan = NoLayout
    /\ plan' = [name |-> name, gap |-> gap, rect |-> layoutRect(name, workArea, gap)]
    /\ UNCHANGED <<windows, changeListeners, host, workArea, resize, trace, last, budget, drag, engine, polling, apps>>

\* The snap detector reports the zone for window w: TileManager._onSnapDetected
SnapDetected(w, zone) ==
    /\ Left > 0
    /\ Commit(_onSnapDetected(World, w, zone))
    /\ last' = Last("snapDetected", w)
    /\ budget' = [budget EXCEPT !.gestures = @ - 1]
    /\ UNCHANGED <<changeListeners, workArea, resize, plan, drag, engine, polling, apps>>

NextLayout ==
    \/ \E name \in LayoutNames : \E gap \in 0..MaxGap : CalculateLayout(name, gap)
    \/ \E zone \in {"left", "right"} : SnapDetected(1, zone)

SpecLayout == InitLayout /\ [][NextLayout]_vars

-----------------------------------------------------------------------------
(* A move grab step by step: the pointer moves, each detector polls on its  *)
(* own timer, another window may close, and the grab ends                  *)

\* _onGrabBegin of SnapDetector, SwapDetector (tiled windows only),
\* InsertDetector and GapDetector for a MOVING grab of window w
moveGrabBegin(W, w, pointer) ==
    [window |-> w, currentZone |-> NoZone,
     swapDragged |-> IF hasWindow(W.win, w) /\ getWindow(W.win, w).isTiled THEN w ELSE 0,
     dragStartRect |-> IF hasWindow(W.win, w) /\ getWindow(W.win, w).isTiled
                       THEN getWindow(W.win, w).rect ELSE NoRect,
     potentialSwapTarget |-> 0,
     currentInsertZone |-> [found |-> FALSE, position |-> 0],
     currentGapZone |-> [found |-> FALSE, rect |-> NoRect],
     pointer |-> pointer]

\* _onGrabEnd of the four detectors, in the order TileManager.enable enabled
\* them: each one commits what its last poll has left in its field; only the
\* swap detector reads the pointer again
grabEndHandlers(W, D) ==
    gapFillIf(
        insertIf(
            swapIf(
                snapIf(W, D.window, D.currentZone),
                D.window,
                IF D.swapDragged = D.window THEN D.potentialSwapTarget ELSE 0,
                _isInEdgeZone(D.pointer.x, D.pointer.y),
                D.dragStartRect),
            D.window, D.currentInsertZone),
        D.window, D.currentGapZone)

MoveGrabBegin(w) ==
    /\ drag.window = 0 /\ resize.resizingWindow = 0
    /\ budget.drags > 0 /\ Left > 0
    /\ w \in DOMAIN host
    /\ drag' = moveGrabBegin(World, w, [x |-> host[w].x + (host[w].width \div 2),
                                         y |-> host[w].y + 10])
    /\ trace' = <<>>
    /\ last' = Last("moveGrabBegin", w)
    /\ budget' = [budget EXCEPT !.drags = @ - 1, !.gestures = @ - 1, !.moves = MaxMoves]
    /\ UNCHANGED <<windows, changeListeners, host, workArea, resize, plan, engine, polling, apps>>

\* The user moves the pointer, and the grabbed frame with it
CursorMove(cursor) ==
    /\ drag.window # 0 /\ drag.window \in DOMAIN host
    /\ budget.moves > 0
    /\ cursor # drag.pointer
    /\ host' = [host EXCEPT ![drag.window] = DragTo(@, cursor)]
    /\ drag' = [drag EXCEPT !.pointer = cursor]
    /\ budget' = [budget EXCEPT !.moves = @ - 1]
    /\ UNCHANGED <<windows, changeListeners, workArea, resize, trace, last, plan, engine, polling, apps>>

\* A poll changes one detector's field; polls that find nothing new are not
\* followed
Polled(D) ==
    /\ drag.window # 0
    /\ D # drag
    /\ drag' = D
    /\ UNCHANGED <<windows, changeListeners, host, workArea, resize, trace, last, budget, plan, engine, polling, apps>>

\* SnapDetector._checkCursorPosition
SnapPoll ==
    Polled([drag EXCEPT !.currentZone =
                _detectZone(drag.pointer.x, drag.pointer.y, workArea, SNAP_THRESHOLD)])

\* TileManager._onPotentialSwapChanged: SwapOverlay._visible after show() or
\* hide()
_onPotentialSwapChanged(W, targetId, draggedId, dragStartRect) ==
    IF targetId = 0 \/ draggedId = 0 \/ dragStartRect = NoRect THEN FALSE
    ELSE hasWindow(W.win, targetId)

\* SwapDetector._checkForSwap on its timer: a changed target is kept and
\* announced to the observers of the potential swap
SwapPoll ==
    /\ drag.window # 0
    /\ drag.swapDragged # 0 /\ drag.swapDragged \in DOMAIN host
    /\ LET newTarget == _checkForSwap(World, drag.swapDragged)
       IN  /\ newTarget # drag.potentialSwapTarget
           /\ drag' = [drag EXCEPT !.potentialSwapTarget = newTarget]
           /\ engine' = IF engine.callbacks["potentialSwapChanged"] = 0 THEN engine
                        ELSE [engine EXCEPT !.swapOverlayVisible =
                                  _onPotentialSwapChanged(World, newTarget, drag.swapDragged,
                                                          drag.dragStartRect)]
    /\ UNCHANGED <<windows, changeListeners, host, workArea, resize, trace, last, budget, plan, polling, apps>>

\* InsertDetector._checkForInsertZone on its timer
InsertPoll ==
    Polled([drag EXCEPT !.currentInsertZone =
                _checkForInsertZone(World, drag.window, drag.pointer)])

\* GapDetector._checkForGap on its timer
GapPoll ==
    Polled([drag EXCEPT !.currentGapZone = _checkForGap(World, drag.window, drag.pointer)])

\* The swap event reached TileManager._onSwapDetected
swapDelivered(tr) == \E i \in 1..Len(tr) : tr[i].k = "swap"

\* _onSwapDetected begins with this._swapOverlay.hide(); no other handler of
\* the grab end touches the swap overlay
MoveGrabEnd ==
    /\ drag.window # 0
    /\ Commit(grabEndHandlers(World, drag))
    /\ engine' = IF swapDelivered(grabEndHandlers(World, drag).tr)
                 THEN [engine EXCEPT !.swapOverlayVisible = FALSE]
                 ELSE engine
    /\ drag' = IdleDrag
    /\ last' = Last("release", drag.window)
    /\ budget' = [budget EXCEPT !.moves = 0]
    /\ UNCHANGED <<changeListeners, workArea, resize, plan, polling, apps>>

InitDrag ==
    /\ changeListeners = <<"subscriber">>
    /\ workArea \in WorkAreas
    /\ \E offsets \in SnappedLayouts :
           Arranged(Snapped([win |-> <<>>, host |-> [id \in WindowIds |-> FloatRect(id)],
                             tr |-> <<>>], offsets, 1))
    /\ resize = IdleResize
    /\ trace = <<>>
    /\ last = [op |-> "init", id |-> 0, pre |-> <<>>, preResize |-> IdleResize, kept |-> {}, state |-> <<>>]
    /\ budget = Budget(MaxDragGestures, 1, 0, MaxRemovals)
    /\ plan = NoPlan
    /\ drag = IdleDrag
    /\ engine = EnabledEngine
    /\ polling = IdlePolling
    /\ apps = PlainApps

NextDrag ==
    \/ \E w \in WindowIds : MoveGrabBegin(w)
    \/ \E cursor \in CursorPoints : CursorMove(cursor)
    \/ SnapPoll
    \/ SwapPoll
    \/ InsertPoll
    \/ GapPoll
    \/ MoveGrabEnd
    \/ \E w \in WindowIds : DestroyWindow(w)

SpecDrag == InitDrag /\ [][NextDrag]_vars

-----------------------------------------------------------------------------

(* The engine switched on and off: TileManager.enable and disable between   *)
(* the gestures                                                            *)

enable ==
    /\ ~engine.enabled
    /\ Left > 0
    /\ engine' = [engine EXCEPT
                      !.enabled = TRUE,
                      !.callbacks = [s \in ObserverSets |-> engine.callbacks[s] + 1]]
    /\ trace' = <<>>
    /\ last' = Last("enable", 0)
    /\ budget' = [budget EXCEPT !.gestures = @ - 1]
    /\ UNCHANGED <<windows, changeListeners, host, workArea, resize, plan, drag, polling, apps>>

disable ==
    /\ engine.enabled
    /\ Left > 0
    /\ engine' = [engine EXCEPT
                      !.enabled = FALSE,
                      !.callbacks = [s \in ObserverSets |->
                                        IF s \in ClearedOnDisable THEN 0
                                        ELSE engine.callbacks[s]],
                      !.swapOverlayVisible = FALSE]
    /\ resize' = [resize EXCEPT !.resizingWindow = 0, !.lastRect = NoRect, !.pollTimeoutId = 0]
    /\ Commit(clear(World))
    /\ last' = Last("disable", 0)
    /\ budget' = [budget EXCEPT !.gestures = @ - 1, !.pulls = 0]
    /\ polling' = [d \in Detectors |-> pollingDisable(polling[d])]
    /\ UNCHANGED <<changeListeners, workArea, plan, drag, apps>>

InitLifecycle ==
    /\ windows = <<>>
    /\ changeListeners = <<>>
    /\ host = [id \in WindowIds |-> FloatRect(id)]
    /\ workArea \in WorkAreas
    /\ resize = IdleResize
    /\ trace = <<>>
    /\ last = [op |-> "init", id |-> 0, pre |-> <<>>, preResize |-> IdleResize, kept |-> {}, state |-> <<>>]
    /\ budget = Budget(MaxLifecycleSteps, MaxLifecycleDrags, MaxResizes, 0)
    /\ plan = NoPlan
    /\ drag = IdleDrag
    /\ engine = ConstructedEngine
    /\ polling = IdlePolling
    /\ apps = PlainApps

NextLifecycle ==
    \/ enable
    \/ disable
    \/ \E w \in WindowIds : \E cursor \in CursorPoints : DragRelease(w, cursor)
    \/ \E w \in WindowIds : \E grabOp \in ResizeOps : ResizeGrabBegin(w, grabOp)
    \/ \E d \in ResizeDeltas : UserResize(d)
    \/ ResizeTick
    \/ ResizeGrabEnd

SpecLifecycle == InitLifecycle /\ [][NextLifecycle]_vars

-----------------------------------------------------------------------------
(* The polling timers: grab-op-begin and grab-op-end as the display emits  *)
(* them, a second begin before the first end included, the timers firing   *)
(* in between, and the engine switched off and on                          *)

GrabOps == {"MOVING", "E"}

GrabOpBegin(w, grabOp) ==
    /\ engine.enabled
    /\ Left > 0
    /\ w \in DOMAIN host
    /\ polling' = [d \in Detectors |-> pollingGrabBegin(polling[d], windows, d, w, grabOp)]
    /\ resize' = IF Tracks(windows, "resize", w, grabOp)
                 THEN [resizingWindow |-> w, resizingWindowId |-> w,
                       lastRect |-> getWindowRect(World, w),
                       resizeDirection |-> grabOp,
                       pollTimeoutId |-> polling["resize"].started + 1]
                 ELSE resize
    /\ trace' = <<>>
    /\ last' = Last("grabOpBegin", w)
    /\ budget' = [budget EXCEPT !.gestures = @ - 1]
    /\ UNCHANGED <<windows, changeListeners, host, workArea, plan, drag, engine, apps>>

\* The end of a grab in which the window was not moved: no move detector has
\* a zone or a target, so of the engine's handlers only the end of a resize
\* runs
GrabOpEnd(w) ==
    /\ engine.enabled
    /\ Left > 0
    /\ w \in DOMAIN host
    /\ polling' = [d \in Detectors |-> pollingGrabEnd(polling[d], w)]
    /\ IF resize.resizingWindow = w
       THEN Commit(resizeGrabEnd(World, resize)) /\ resize' = IdleResize
       ELSE Commit(World) /\ UNCHANGED resize
    /\ last' = Last("grabOpEnd", w)
    /\ budget' = [budget EXCEPT !.gestures = @ - 1]
    /\ UNCHANGED <<changeListeners, workArea, plan, drag, engine, apps>>

\* A timer fires; a firing that leaves the timer in place changes nothing
TimerFires(d, id) ==
    /\ id \in polling[d].live
    /\ polling[d].window = 0
    /\ polling' = [polling EXCEPT ![d] = poll(@, id)]
    /\ trace' = <<>>
    /\ last' = Last("poll", 0)
    /\ UNCHANGED <<windows, changeListeners, host, workArea, resize, budget, plan, drag, engine, apps>>

InitTimers ==
    /\ changeListeners = <<"subscriber">>
    /\ workArea \in WorkAreas
    /\ \E offsets \in SnappedLayouts :
           Arranged(Snapped([win |-> <<>>, host |-> [id \in WindowIds |-> FloatRect(id)],
                             tr |-> <<>>], offsets, 1))
    /\ resize = IdleResize
    /\ trace = <<>>
    /\ last = [op |-> "init", id |-> 0, pre |-> <<>>, preResize |-> IdleResize, kept |-> {}, state |-> <<>>]
    /\ budget = Budget(MaxGrabEvents, 0, 0, 0)
    /\ plan = NoPlan
    /\ drag = IdleDrag
    /\ engine = EnabledEngine
    /\ polling = IdlePolling
    /\ apps = PlainApps

NextTimers ==
    \/ \E w \in WindowIds : \E grabOp \in GrabOps : GrabOpBegin(w, grabOp)
    \/ \E w \in WindowIds : GrabOpEnd(w)
    \/ \E d \in Detectors : \E id \in 1..MaxGrabEvents : TimerFires(d, id)
    \/ enable
    \/ disable

SpecTimers == InitTimers /\ [][NextTimers]_vars

-----------------------------------------------------------------------------
(* Application windows of every kind: one window of the three is an        *)
(* excluded app, has no WM class or cannot be resized                      *)

InitApps ==
    /\ windows = <<>>
    /\ changeListeners = <<"subscriber">>
    /\ host = [id \in WindowIds |-> FloatRect(id)]
    /\ workArea \in WorkAreas
    /\ resize = IdleResize
    /\ trace = <<>>
    /\ last = [op |-> "init", id |-> 0, pre |-> <<>>, preResize |-> IdleResize, kept |-> {}, state |-> <<>>]
    /\ budget = Budget(MaxAppGestures, MaxAppDrags, 0, MaxRemovals)
    /\ plan = NoPlan
    /\ drag = IdleDrag
    /\ engine = EnabledEngine
    /\ polling = IdlePolling
    /\ \E w \in WindowIds : \E kind \in AppKinds : apps = [PlainApps EXCEPT ![w] = kind]

NextApps ==
    \/ \E w \in WindowIds : \E cursor \in CursorPoints : DragRelease(w, cursor)
    \/ \E w \in WindowIds : DestroyWindow(w)

SpecApps == InitApps /\ [][NextApps]_vars

-----------------------------------------------------------------------------
(* Windows of a snapped layout close one after the other; one of them is    *)
(* of a kind the tracker may not track                                     *)

InitStale ==
    /\ changeListeners = <<"subscriber">>
    /\ workArea \in WorkAreas
    /\ \E offsets \in SnappedLayouts :
           Arranged(Snapped([win |-> <<>>, host |-> [id \in WindowIds |-> FloatRect(id)],
                             tr |-> <<>>], offsets, 1))
    /\ resize = IdleResize
    /\ trace = <<>>
    /\ last = [op |-> "init", id |-> 0, pre |-> <<>>, preResize |-> IdleResize, kept |-> {}, state |-> <<>>]
    /\ budget = Budget(MaxStaleRemovals, 0, 0, MaxStaleRemovals)
    /\ plan = NoPlan
    /\ drag = IdleDrag
    /\ engine = EnabledEngine
    /\ polling = IdlePolling
    /\ \E w \in WindowIds : \E kind \in AppKinds : apps = [PlainApps EXCEPT ![w] = kind]

NextStale ==
    \/ \E w \in WindowIds : DestroyWindow(w)
    \/ \E w \in WindowIds : Untile(w)

SpecStale == InitStale /\ [][NextStale]_vars

-----------------------------------------------------------------------------
(* Windows opening and closing on a wide and on a narrow work area, with    *)
(* auto-tiling as configured                                               *)

CreateWorkAreas == {Rect(64, 32, 1920, 1048), Rect(64, 32, 400, 1048)}

\* The left and the right screen edge of the work area
EdgeCursors ==
    {[x |-> workArea.x + 10, y |-> workArea.y + 500],
     [x |-> workArea.x + workArea.width - 10, y |-> workArea.y + 500]}

\* A window opens and has drawn its first frame
CreateWindow(w) ==
    /\ engine.enabled
    /\ w \in WindowIds \ DOMAIN host
    /\ \A v \in 1..(w - 1) : v \in DOMAIN host
    /\ budget.removals = MaxRemovals
    /\ LET created == [World EXCEPT
                          !.host = [id \in DOMAIN host \cup {w} |->
                                       IF id = w THEN FloatRect(w) ELSE host[id]]]
       IN  IF _shouldTrack(apps[w])
           THEN Commit(_onWindowCreated(created, w, apps[w].wmClass, engine.autoTileEnabled))
           ELSE Commit(created)
    /\ last' = Last("created", w)
    /\ UNCHANGED <<changeListeners, workArea, resize, budget, plan, drag, engine, polling, apps>>

setAutoTileEnabled(enabled) ==
    /\ engine.autoTileEnabled # enabled
    /\ windows = <<>>
    /\ engine' = [engine EXCEPT !.autoTileEnabled = enabled]
    /\ trace' = <<>>
    /\ last' = Last("setAutoTileEnabled", 0)
    /\ UNCHANGED <<windows, changeListeners, host, workArea, resize, budget, plan, drag, polling, apps>>

InitCreate ==
    /\ windows = <<>>
    /\ changeListeners = <<"subscriber">>
    /\ host = [id \in {} |-> ZeroRect]
    /\ workArea \in CreateWorkAreas
    /\ resize = IdleResize
    /\ trace = <<>>
    /\ last = [op |-> "init", id |-> 0, pre |-> <<>>, preResize |-> IdleResize, kept |-> {}, state |-> <<>>]
    /\ budget = Budget(MaxCreateGestures, MaxDrags, 0, MaxRemovals)
    /\ plan = NoPlan
    /\ drag = IdleDrag
    /\ engine = EnabledEngine
    /\ polling = IdlePolling
    /\ apps \in {PlainApps,
                  [PlainApps EXCEPT ![2] = [wmClass |-> "org.gnome.Calculator", resizable |-> TRUE]]}

NextCreate ==
    \/ \E w \in WindowIds : CreateWindow(w)
    \/ \E enabled \in BOOLEAN : setAutoTileEnabled(enabled)
    \/ \E w \in WindowIds : \E cursor \in EdgeCursors : DragRelease(w, cursor)
    \/ \E w \in WindowIds : DestroyWindow(w)
    \/ \E w \in WindowIds : Untile(w)

SpecCreate == InitCreate /\ [][NextCreate]_vars

-----------------------------------------------------------------------------
Next ==
    \/ \E w \in WindowIds : \E cursor \in CursorPoints : DragRelease(w, cursor)
    \/ \E w \in WindowIds : \E grabOp \in ResizeOps : ResizeGrabBegin(w, grabOp)
    \/ \E d \in ResizeDeltas : UserResize(d)
    \/ ResizeTick
    \/ ResizeGrabEnd
    \/ \E w \in WindowIds : DestroyWindow(w)
    \/ \E w \in WindowIds : Untile(w)

Spec == Init /\ [][Next]_vars

-----------------------------------------------------------------------------
(* Properties                                                              *)

Directions == {"left", "right", "top", "bottom"}

\* The ids listed as neighbours, in any direction, by the entry e
ListedBy(e) == UNION {Range(e.neighbors[d]) : d \in Directions}

\* C1: after any sequence of setWindow (without explicit neighbors),
\* removeWindow, recalculateNeighbors and clear, every id found in any
\* neighbour list of any entry is the id of an entry of the registry.
C1_NoDanglingNeighbor ==
    \A i \in 1..Len(windows) : ListedBy(windows[i]) \subseteq StoreIds(windows)

\* removeWindow has just removed a window that another entry listed
C1_Witness ==
    /\ last.op = "removeWindow"
    /\ ~hasWindow(windows, last.id)
    /\ \E i \in 1..Len(last.pre) :
           /\ last.pre[i].id # last.id
           /\ last.id \in ListedBy(last.pre[i])
           /\ hasWindow(windows, last.pre[i].id)

\* The events that open a handler's part of the event list
HandlerStarts == {"snap", "swap", "insert", "gapfill", "redistribute"}

\* C2: after every engine handler has completed (snap, resize tick,
\* resize-complete with its correction, insert with its correction, removal,
\* swap, gap-fill), if B is in A's right-neighbour list then A's right edge is
\* within EDGE_TOLERANCE of B.x and the two overlap vertically by at least
\* NEIGHBOR_OVERLAP_MIN.
C2_RightNeighborsAdjacent ==
    \A i \in 1..Len(windows) :
        windows[i].isTiled =>
            \A b \in Range(windows[i].neighbors.right) :
                (hasWindow(windows, b) /\ getWindow(windows, b).isTiled) =>
                    /\ Abs(getRightEdge(windows[i].rect) - getWindow(windows, b).rect.x)
                           <= EDGE_TOLERANCE
                    /\ hasVerticalOverlap(windows[i].rect, getWindow(windows, b).rect,
                                          NEIGHBOR_OVERLAP_MIN)

\* The event i is a registry rectangle write that no recalculateNeighbors
\* follows before the handler it belongs to ends
WrittenAfterLastRecalc(i) ==
    /\ trace[i].k = "setRect"
    /\ ~\E j \in (i + 1)..Len(trace) :
           /\ trace[j].k = "recalc"
           /\ \A q \in (i + 1)..j : trace[q].k \notin HandlerStarts

\* C3: every operation that changes tiled rectangles (removal redistribution,
\* insertion with its overlap correction, resize-complete with the correction
\* it triggers, swap, gap-fill) ends with recalculateNeighbors(): no registry
\* rectangle is written after the handler's last recalculateNeighbors().
C3_EndsWithRecalc ==
    last.op \in {"release", "grabEnd", "removed", "untile"} =>
        \A i \in 1..Len(trace) : ~WrittenAfterLastRecalc(i)

\* The registry rectangle of the window id just before the event i
RectBefore(id, i) ==
    LET writes == {j \in 1..(i - 1) : trace[j].k = "setRect" /\ trace[j].id = id}
    IN  IF writes # {}
        THEN trace[CHOOSE j \in writes : \A q \in writes : q <= j].rect
        ELSE IF hasWindow(last.pre, id) THEN getWindow(last.pre, id).rect
        ELSE NoRect

\* The event i writes a rectangle the window did not hold before
Changes(i) == trace[i].k = "setRect" /\ trace[i].rect # RectBefore(trace[i].id, i)

\* The subscriber is invoked right after the write i of a multi-window
\* operation has given one window a new rectangle, and the same operation
\* changes another window's rectangle at k before it has recalculated the
\* neighbours
PartialLayoutObserved(i, k) ==
    /\ Changes(i)
    /\ trace[i + 1].k = "notify"
    /\ Changes(k)
    /\ trace[k].id # trace[i].id
    /\ \A q \in i..k : trace[q].k \notin (HandlerStarts \cup {"recalc"})
    /\ \E m \in 1..(i - 1) :
           /\ trace[m].k \in {"redistribute", "insert", "swap"}
           /\ \A q \in m..i : trace[q].k # "recalc"
           /\ \A q \in (m + 1)..i : trace[q].k \notin HandlerStarts

\* C4: no partial layout is observable: a subscriber registered with onChange
\* is never invoked between the first rectangle a multi-window operation
\* (removal redistribution, insertion, swap) writes and that operation's
\* recalculateNeighbors(), while other windows still hold their old rectangles.
C4_NoPartialLayoutObserved ==
    changeListeners # <<>> =>
        \A i \in 1..(Len(trace) - 1) : \A k \in (i + 2)..Len(trace) :
            ~PartialLayoutObserved(i, k)

\* C5: for every resize polling tick, every signed edge delta and every
\* stored neighbour size (also sizes already below the minimum), each
\* rectangle the propagation writes for a left/right neighbour has width >=
\* MIN_WINDOW_WIDTH and each one it writes for a top/bottom neighbour has
\* height >= MIN_WINDOW_HEIGHT.
C5_PropagatedRectsAboveMin ==
    last.op = "tick" =>
        \A i \in 1..Len(trace) :
            /\ trace[i].k = "adjustH" => trace[i].rect.width >= MIN_WINDOW_WIDTH
            /\ trace[i].k = "adjustV" => trace[i].rect.height >= MIN_WINDOW_HEIGHT

\* C6: when the left or right edge of the resized window moves into a
\* neighbour already at or below MIN_WINDOW_WIDTH, the neighbour's rectangle is
\* left unchanged and, once the tick has finished, the registry rectangle of
\* the resizing window equals its last known rectangle from before the tick.
C6_RevertRestoresLastRect ==
    last.op = "tick" =>
        \A i \in 1..Len(trace) :
            trace[i].k = "revert" =>
                /\ getWindow(windows, trace[i].id).rect = getWindow(last.pre, trace[i].id).rect
                /\ getWindow(windows, last.id).rect = last.preResize.lastRect

\* C7: within one tick, once the revert branch has fired for one neighbour, no
\* other neighbour of the same direction list has its rectangle changed.
C7_RevertStopsTheList ==
    last.op = "tick" =>
        \A i \in 1..Len(trace) : \A j \in (i + 1)..Len(trace) :
            ~(/\ trace[i].k = "revert"
              /\ trace[j].k = "setRect"
              /\ trace[j].id \notin {trace[i].id, last.id})

\* The neighbours the tick that has just run had to shrink by the whole movement
ShrinksWholeBefore ==
    ShrinksWhole([win |-> last.pre, host |-> [host EXCEPT ![last.id] = resize.lastRect],
                  tr |-> <<>>], last.preResize)

\* The right edge of the resizing window A has moved by Delta in the tick
Delta == getRightEdge(resize.lastRect) - getRightEdge(last.preResize.lastRect)

\* C8: when the right edge of A moves by delta > 0 and its right neighbour B
\* has B.width - delta >= MIN_WINDOW_WIDTH, the tick sets B.width to
\* B.width - delta and B.x to B.x + delta, and after resize-complete B is still
\* in A's right-neighbour list.
C8_NeighbourShrinksByDelta ==
    /\ last.op = "tick" =>
           \A b \in ShrinksWholeBefore :
               /\ getWindow(windows, b).rect.width = getWindow(last.pre, b).rect.width - Delta
               /\ getWindow(windows, b).rect.x = getWindow(last.pre, b).rect.x + Delta
               /\ getWindow(windows, b).rect.y = getWindow(last.pre, b).rect.y
               /\ getWindow(windows, b).rect.height = getWindow(last.pre, b).rect.height
    /\ last.op = "grabEnd" =>
           \A b \in last.kept :
               \E i \in 1..Len(getWindow(windows, last.id).neighbors.right) :
                   getWindow(windows, last.id).neighbors.right[i] = b

\* The remaining tiled windows, in the registry's order, stand side by side
\* from the left gap on, each of the given width and of the full height
SideBySide(tiled, width) ==
    /\ \A k \in 1..Len(tiled) :
           tiled[k].rect = Rect(workArea.x + INNER_GAP + (k - 1) * (width + INNER_GAP),
                                workArea.y + INNER_GAP, width,
                                workArea.height - 2 * INNER_GAP)
    /\ \A k \in 1..(Len(tiled) - 1) :
           tiled[k + 1].rect.x - getRightEdge(tiled[k].rect) = INNER_GAP
    /\ getRightEdge(tiled[Len(tiled)].rect) <= workArea.x + workArea.width - INNER_GAP

\* The removal that has just run has redistributed the remaining tiled windows
Redistributed ==
    /\ last.op \in {"removed", "untile"}
    /\ \E i \in 1..Len(trace) : trace[i].k = "redistribute"

\* C9: after a tiled window is removed and the remaining n >= 1 tiled windows
\* are redistributed on a work area of width W with gap g, each of them has
\* width floor((W - g*(n+1)) / n) and height workArea.height - 2*g, the k-th
\* sits at x = workArea.x + g + k*(width + g), consecutive windows are g apart
\* and the last right edge is <= workArea.x + W - g.
C9_EqualRedistribution ==
    Redistributed =>
        /\ Len(getTiledWindows(windows)) >= 1
        /\ SideBySide(getTiledWindows(windows),
                      Floor(workArea.width - INNER_GAP * (Len(getTiledWindows(windows)) + 1),
                            Len(getTiledWindows(windows))))

\* One of three tiled windows has closed and the two that remain are 948 wide
C9_Witness ==
    /\ Redistributed
    /\ Len(last.pre) = 3
    /\ \A i \in 1..3 : last.pre[i].isTiled
    /\ Len(getTiledWindows(windows)) = 2
    /\ \A i \in 1..2 : getTiledWindows(windows)[i].rect.width = 948

\* The width the planner scaled the i-th existing window of the plan to, before
\* the minimum was enforced
PlanScaled(i) ==
    scaledWidth(plan.widths[i],
                (plan.waWidth - (INNER_GAP * 2 + INNER_GAP * Len(plan.widths))) - plan.newWidth,
                SeqSum(plan.widths))

\* C10: proportional insertion of one window next to n existing tiled windows
\* gives every one of the n+1 windows a width >= MIN_WINDOW_WIDTH, and an
\* existing window clamped up to MIN_WINDOW_WIDTH is not shrunk by the excess
\* distribution.
C10_PlannedWidthsAboveMin ==
    plan.result # <<>> =>
        /\ plan.newWidth >= MIN_WINDOW_WIDTH
        /\ \A i \in 1..Len(plan.result) :
               /\ plan.result[i] >= MIN_WINDOW_WIDTH
               /\ PlanScaled(i) < MIN_WINDOW_WIDTH => plan.result[i] = MIN_WINDOW_WIDTH

\* A plan in which one window was clamped up to the minimum and another gave up
\* width to the excess distribution
C10_Witness ==
    /\ plan.result # <<>>
    /\ \E i \in 1..Len(plan.result) :
           PlanScaled(i) < MIN_WINDOW_WIDTH /\ plan.result[i] = MIN_WINDOW_WIDTH
    /\ \E j \in 1..Len(plan.result) :
           PlanScaled(j) > MIN_WINDOW_WIDTH /\ plan.result[j] < PlanScaled(j)

\* The plan is for existing windows that all have the same width
PlanEqualWidths == \A i \in 1..Len(plan.widths) : plan.widths[i] = plan.widths[1]

\* The planned row of the n+1 windows with its n+2 gaps is no wider than the
\* work area
PlanFits ==
    SeqSum(plan.result) + plan.newWidth + (Len(plan.result) + 2) * INNER_GAP <= plan.waWidth

\* The work area has room for the n+1 windows at MIN_WINDOW_WIDTH and their gaps
PlanHasRoom ==
    (Len(plan.widths) + 1) * MIN_WINDOW_WIDTH + (Len(plan.widths) + 2) * INNER_GAP
        <= plan.waWidth

\* C11 (as stated): proportional insertion with n existing equal-width tiled
\* windows on a work area of width W yields n+1 planned widths whose sum plus
\* (n+2)*g is <= W, for every n >= 1 and W.
C11_PlannedRowFits ==
    (plan.result # <<>> /\ PlanEqualWidths) => PlanFits

\* C11 (amended): the planned row of n+1 windows fits the work area whenever
\* the work area is wide enough for n+1 windows of MIN_WINDOW_WIDTH with their
\* n+2 gaps.
C11_PlannedRowFitsWithRoom ==
    (plan.result # <<>> /\ PlanEqualWidths /\ PlanHasRoom) => PlanFits

\* Two or more equal windows were scaled down to make room for the new one
C11_Witness ==
    /\ plan.result # <<>>
    /\ PlanEqualWidths
    /\ PlanHasRoom
    /\ Len(plan.widths) >= 2
    /\ \A i \in 1..Len(plan.result) : plan.result[i] < plan.widths[i]

\* The swap handler has started at event i and has moved both windows
SwapCommittedAt(i) ==
    /\ i + 2 <= Len(trace)
    /\ trace[i].k = "swap"
    /\ trace[i + 1].k = "move"
    /\ trace[i + 2].k = "move"

\* The target of the swap committed at event i
SwapTarget(i) == trace[i + 2].id

\* The release that has just run committed a swap and nothing else
SwapOnly ==
    /\ last.op = "release"
    /\ SwapCommittedAt(1)
    /\ \A j \in 2..Len(trace) : trace[j].k \notin HandlerStarts

\* C12: a committed swap is a true position exchange: after the commit the
\* dragged window D holds the registry rectangle the target T held just before
\* the commit and T holds the one D held just before the commit, whatever
\* happened between drag start and release (a redistribution after another
\* window's removal included).
C12_SwapExchangesRects ==
    SwapOnly =>
        /\ getWindow(windows, last.id).rect = getWindow(last.pre, SwapTarget(1)).rect
        /\ getWindow(windows, SwapTarget(1)).rect = getWindow(last.pre, last.id).rect

\* C13: edge zones always win over swap: for every drag release, if a snap is
\* committed for the released window then no swap is committed for that same
\* release, under every interleaving of cursor moves, polls of the snap
\* detector and of the swap detector, and the release.
C13_NoSwapWithSnap ==
    last.op = "release" =>
        ~(/\ \E i \in 1..Len(trace) : trace[i].k = "snap" /\ trace[i].id = last.id
          /\ \E j \in 1..Len(trace) : SwapCommittedAt(j))

\* C14: after a committed swap of dragged window D and target T, D's zone is
\* the zone T had before the swap and T's zone is the zone D had before it.
C14_SwapExchangesZones ==
    SwapOnly =>
        /\ getWindow(windows, last.id).zone = getWindow(last.pre, SwapTarget(1)).zone
        /\ getWindow(windows, SwapTarget(1)).zone = getWindow(last.pre, last.id).zone

\* A swap has been committed between two windows of different zones
C14_Witness ==
    /\ SwapOnly
    /\ hasWindow(windows, last.id) /\ hasWindow(windows, SwapTarget(1))
    /\ getWindow(last.pre, last.id).zone # getWindow(last.pre, SwapTarget(1)).zone
    /\ getWindow(windows, last.id).zone # getWindow(last.pre, last.id).zone

\* The window id was tiled, with an originalRect, before the last handler ran
\* and its entry is still there
StaysTiled(id) ==
    /\ hasWindow(last.pre, id)
    /\ getWindow(last.pre, id).isTiled
    /\ getWindow(last.pre, id).originalRect # NoRect
    /\ hasWindow(windows, id)

\* C15: originalRect is set once: from the moment a window first becomes tiled
\* with originalRect R until its entry is removed, its originalRect stays R
\* across snap (re-snapping a tiled window included), resize, swap, insert,
\* gap-fill and redistribution.
C15_OriginalRectSetOnce ==
    \A id \in WindowIds :
        StaysTiled(id) =>
            getWindow(windows, id).originalRect = getWindow(last.pre, id).originalRect

\* The handlers that tile a window
TilingStarts == {"snap", "insert", "gapfill"}

\* The event i starts the last handler of the release that tiles window id
LastTilingOf(id, i) ==
    /\ trace[i].k \in TilingStarts
    /\ trace[i].id = id
    /\ \A j \in (i + 1)..Len(trace) : ~(trace[j].k \in TilingStarts /\ trace[j].id = id)

\* C16: untile is a round trip: for a window tiled by snap, insert or gap-fill
\* whose host rectangle was R immediately before the tiling operation moved
\* it, untileWindow(id) moves the host window back to exactly R, whatever
\* resize, swap or redistribution happened in between. In three steps: the
\* tiling operation stores R as originalRect, no other handler changes the
\* stored originalRect, and untileWindow moves the window to it.
C16_UntileRoundTrip ==
    /\ \A id \in WindowIds : \A i \in 1..Len(trace) :
           (last.op = "release" /\ LastTilingOf(id, i) /\ hasWindow(windows, id)) =>
               getWindow(windows, id).originalRect = trace[i].rect
    /\ \A id \in WindowIds :
           (/\ StaysTiled(id)
            /\ \A i \in 1..Len(trace) : ~(trace[i].k \in TilingStarts /\ trace[i].id = id)) =>
               getWindow(windows, id).originalRect = getWindow(last.pre, id).originalRect
    /\ (/\ last.op = "untile"
        /\ hasWindow(last.pre, last.id)
        /\ getWindow(last.pre, last.id).originalRect # NoRect
        /\ last.id \in DOMAIN host) =>
           host[last.id] = getWindow(last.pre, last.id).originalRect

(***************************************************************************)
(* C17: removeWindow(id) for an id that is not in the registry changes no  *)
(* entry and no neighbour list and delivers no change notification; for a  *)
(* present id it deletes only that entry, removes id from the four         *)
(* neighbour lists of every other entry (keeping the order of what stays)  *)
(* and leaves rect, originalRect, zone and isTiled of every other entry    *)
(* as they were.                                                           *)
(***************************************************************************)
Notified == \E i \in 1..Len(trace) : trace[i].k = "notify"

WithoutId(list, id) ==
    LET Other(x) == x # id
    IN  SelectSeq(list, Other)

RemovedAbsent == last.op = "removeWindow" /\ ~hasWindow(last.pre, last.id)

RemovedPresent == last.op = "removeWindow" /\ hasWindow(last.pre, last.id)

C17_RemoveWindowFrame ==
    /\ RemovedAbsent => windows = last.pre /\ ~Notified
    /\ RemovedPresent =>
          /\ StoreIds(windows) = StoreIds(last.pre) \ {last.id}
          /\ Len(windows) = Len(last.pre) - 1
          /\ \A i \in 1..Len(last.pre) :
                last.pre[i].id # last.id =>
                    LET before == last.pre[i]
                        after == getWindow(windows, before.id)
                    IN  /\ after.rect = before.rect
                        /\ after.originalRect = before.originalRect
                        /\ after.zone = before.zone
                        /\ after.isTiled = before.isTiled
                        /\ \A d \in {"left", "right", "top", "bottom"} :
                              after.neighbors[d] = WithoutId(before.neighbors[d], last.id)

\* an absent id is removed while a subscriber listens
C17_WitnessAbsent ==
    /\ RemovedAbsent
    /\ last.pre # <<>>
    /\ changeListeners # <<>>

\* a present id that another entry lists as a neighbour is removed
C17_Witness ==
    /\ RemovedPresent
    /\ \E i \in 1..Len(last.pre) :
          /\ last.pre[i].id # last.id
          /\ \E d \in {"left", "right", "top", "bottom"} :
                \E j \in 1..Len(last.pre[i].neighbors[d]) :
                    last.pre[i].neighbors[d][j] = last.id

(***************************************************************************)
(* C18: setWindow(id, partial) is an upsert that changes only the fields   *)
(* present in partial.  For an existing id every field that is not given   *)
(* keeps its previous value; for a new id the fields that are not given    *)
(* are a zero rectangle, originalRect null, zone 'none', isTiled false and *)
(* four empty neighbour lists.  A given field takes the given value (a     *)
(* given null originalRect counts as not given), and no other entry        *)
(* changes.                                                                *)
(***************************************************************************)
StateFields == {"rect", "originalRect", "zone", "isTiled", "neighbors"}

Baseline ==
    [rect |-> ZeroRect, originalRect |-> NoRect, zone |-> "none",
     isTiled |-> FALSE, neighbors |-> EmptyNeighbors]

Given(state) ==
    {f \in DOMAIN state : f = "originalRect" => state.originalRect # NoRect}

Upserted(pre, post, id, state) ==
    LET ex == hasWindow(pre, id)
        after == getWindow(post, id)
    IN  /\ hasWindow(post, id)
        /\ Len(post) = IF ex THEN Len(pre) ELSE Len(pre) + 1
        /\ \A i \in 1..Len(pre) : pre[i].id # id => post[i] = pre[i]
        /\ \A f \in Given(state) : after[f] = state[f]
        /\ \A f \in StateFields \ Given(state) :
              after[f] = IF ex THEN getWindow(pre, id)[f] ELSE Baseline[f]

C18_SetWindowUpsert ==
    last.op = "setWindow" => Upserted(last.pre, windows, last.id, last.state)

\* setWindow has just written an entry that existed, beside another entry, and
\* the entry kept a rectangle, an original rectangle or a tiled flag that is
\* not the baseline
C18_Witness ==
    /\ last.op = "setWindow"
    /\ hasWindow(last.pre, last.id)
    /\ Len(windows) >= 2
    /\ getWindow(windows, last.id) # getWindow(last.pre, last.id)
    /\ \E f \in {"rect", "originalRect", "isTiled"} :
          /\ getWindow(windows, last.id)[f] = getWindow(last.pre, last.id)[f]
          /\ getWindow(windows, last.id)[f] # Baseline[f]

\* setWindow has just created an entry from a partial without a rectangle
C18_WitnessNew ==
    /\ last.op = "setWindow"
    /\ ~hasWindow(last.pre, last.id)
    /\ getWindow(windows, last.id).rect = ZeroRect

(***************************************************************************)
(* C19: when a change subscriber throws, every other registered            *)
(* subscriber is still invoked for that change, the exception does not     *)
(* leave setWindow, removeWindow or clear, and the registry holds what the *)
(* call wrote: the upserted entry, the entry gone, or nothing at all.      *)
(***************************************************************************)
Count(k) == Cardinality({i \in 1..Len(trace) : trace[i].k = k})

Throwers == {i \in 1..Len(changeListeners) : Throws(changeListeners[i])}

StoreChanged == last.op \in {"setWindow", "clear"} \/ RemovedPresent

C19_ThrowingSubscriberIsContained ==
    StoreChanged /\ Throwers # {} =>
        /\ Count("notify") = Len(changeListeners) - Cardinality(Throwers)
        /\ Count("caught") = Cardinality(Throwers)
        /\ Count("thrown") = 0
        /\ last.op = "setWindow" => Upserted(last.pre, windows, last.id, last.state)
        /\ last.op = "removeWindow" =>
              ~hasWindow(windows, last.id) /\ Len(windows) = Len(last.pre) - 1
        /\ last.op = "clear" => windows = <<>>

\* a change is announced while the throwing subscriber stands before the
\* one that returns
C19_Witness ==
    /\ StoreChanged
    /\ changeListeners = <<"thrower", "subscriber">>
    /\ Count("notify") = 1

(***************************************************************************)
(* C20: after TileManager.disable() none of the observer registrations     *)
(* enable() made is left in any component, so that while the engine is     *)
(* enabled, after any number of enable/disable cycles, every callback Set  *)
(* holds exactly one TileManager handler and the end of a resize invokes   *)
(* the resize-complete handler exactly once.                               *)
(***************************************************************************)
C20_ObserversOncePerEnable ==
    /\ ~engine.enabled => \A s \in ObserverSets : engine.callbacks[s] = 0
    /\ engine.enabled => \A s \in ObserverSets : engine.callbacks[s] = 1
    /\ last.op = "grabEnd" => Count("resizeComplete") = 1

\* the part of C20 about the handler alone: one invocation for each resize
C20_ResizeCompleteOnce == last.op = "grabEnd" => Count("resizeComplete") = 1

\* the part of C20 that the code keeps: the Sets of the window tracker and of
\* the four move detectors are empty while disabled and hold one handler
\* while enabled
ClearedSetsOncePerEnable ==
    \A s \in ClearedOnDisable : engine.callbacks[s] = IF engine.enabled THEN 1 ELSE 0

(***************************************************************************)
(* C21: for every sequence of grab-begin events, grab-end events and       *)
(* disable calls, a second grab-begin before the first grab-end included,  *)
(* each detector (snap, swap, insert, gap, resize) has at most one live    *)
(* polling timer, and none while its tracked window reference is null.     *)
(***************************************************************************)
C21_OneLiveTimer ==
    \A d \in Detectors :
        /\ Cardinality(polling[d].live) <= 1
        /\ polling[d].window = 0 => polling[d].live = {}

\* what the code does keep: the timer whose id is stored is live, and without
\* a second grab-begin inside a grab it is the only one
StoredTimerIsLive ==
    \A d \in Detectors :
        polling[d].timeoutId # 0 => polling[d].timeoutId \in polling[d].live

(***************************************************************************)
(* C22: no window whose WM class matches an excluded-app identifier ever   *)
(* has an entry in the registry, whatever windows are created and whatever *)
(* edge-snap, insert and gap-fill gestures are performed with it.          *)
(***************************************************************************)
C22_ExcludedAppsNeverRegistered ==
    \A i \in 1..Len(windows) : ~_isExcludedApp(apps[windows[i].id].wmClass)

(***************************************************************************)
(* C23: every window that has a registry entry and is then destroyed on    *)
(* the host has lost the entry, and its id every neighbour list, by the    *)
(* time the destruction has been processed, whether or not the window      *)
(* tracker tracks the window.                                              *)
(***************************************************************************)
C23_DestroyedWindowsLeaveRegistry ==
    last.op = "removed" =>
        /\ ~hasWindow(windows, last.id)
        /\ \A i \in 1..Len(windows) : \A d \in Directions :
              last.id \notin Range(windows[i].neighbors[d])

\* what the code keeps: the entry of a destroyed window that the tracker
\* tracks is deleted
TrackedWindowsLeaveRegistry ==
    last.op = "removed" /\ _shouldTrack(apps[last.id]) => ~hasWindow(windows, last.id)

(***************************************************************************)
(* C24: for every gap >= 0 and every work area whose width and height are  *)
(* both >= 6*gap, every rectangle of the layout calculator (left, right,   *)
(* top/maximize, the quadrants, each third, each two-thirds) has width >= 1 *)
(* and height >= 1.                                                        *)
(***************************************************************************)
Calculated == plan.name # ""

C24_LayoutRectsAtLeastOne ==
    Calculated /\ workArea.width >= 6 * plan.gap /\ workArea.height >= 6 * plan.gap =>
        plan.rect.width >= 1 /\ plan.rect.height >= 1

\* C24 as amended: the same for every work area with width >= 4*gap + 3
\* and height >= 3*gap + 2
C24_LayoutRectsAtLeastOneWithRoom ==
    Calculated /\ workArea.width >= 4 * plan.gap + 3 /\ workArea.height >= 3 * plan.gap + 2 =>
        plan.rect.width >= 1 /\ plan.rect.height >= 1

\* a third on the narrowest work area of the amended claim, where the work
\* area is no wider than 6*gap + 1
C24_Witness ==
    /\ Calculated
    /\ plan.name = "third-center"
    /\ plan.gap >= 1
    /\ workArea.width = 4 * plan.gap + 3
    /\ workArea.width <= 6 * plan.gap + 1
    /\ plan.rect.width = 1

(***************************************************************************)
(* C25: for every work area and gap the 'left' rectangle is x = workArea.x *)
(* + gap, y = workArea.y + gap, width = floor((workArea.width - 3*gap)/2), *)
(* height = workArea.height - 2*gap (1920x1080 with gap 8 gives            *)
(* {8,8,948,1064}); snapping to 'left' stores that rectangle and requests  *)
(* it of the host; and the 'left' and 'right' rectangles of one work area  *)
(* have equal width and do not overlap, with at least gap between them.    *)
(***************************************************************************)
LeftRect(wa, gap) ==
    Rect(wa.x + gap, wa.y + gap, (wa.width - 3 * gap) \div 2, wa.height - 2 * gap)

SnappedLeft ==
    /\ last.op = "snapDetected"
    /\ hasWindow(windows, last.id)
    /\ getWindow(windows, last.id).zone = "left"

C25_LeftSnapRect ==
    /\ Calculated /\ plan.name = "left" => plan.rect = LeftRect(workArea, plan.gap)
    /\ Calculated /\ plan.name = "left" /\ plan.gap = 8 /\ workArea = Rect(0, 0, 1920, 1080) =>
          plan.rect = Rect(8, 8, 948, 1064)
    /\ SnappedLeft =>
          /\ getWindow(windows, last.id).rect = LeftRect(workArea, INNER_GAP)
          /\ \E i \in 1..Len(trace) :
                trace[i] = Ev("move", last.id, LeftRect(workArea, INNER_GAP))
          /\ \A i \in 1..Len(trace) :
                trace[i].k = "move" => trace[i].rect = LeftRect(workArea, INNER_GAP)
    /\ \A gap \in 0..MaxGap :
          LET left == layoutRect("left", workArea, gap)
              right == layoutRect("right", workArea, gap)
          IN  /\ left.width = right.width
              /\ right.x - getRightEdge(left) >= gap

\* the 'left' rectangle of the 1920x1080 work area has been calculated with
\* gap 8 and a window has been snapped to 'left' there
C25_Witness ==
    /\ Calculated /\ plan.name = "left" /\ plan.gap = 8
    /\ workArea = Rect(0, 0, 1920, 1080)
    /\ SnappedLeft

(***************************************************************************)
(* C26: the neighbour graph is not guaranteed symmetric: a registry state  *)
(* is reached, immediately after recalculateNeighbors(), with two tiled    *)
(* windows A and B such that B is in A's right-neighbour list while A is   *)
(* not in B's left-neighbour list.                                         *)
(***************************************************************************)
JustRecalculated == last.op = "recalculateNeighbors"

Lists(a, d, b) == b.id \in Range(a.neighbors[d])

\* B is in A's right list and A is not in B's left list
OneSided(a, b) == Lists(a, "right", b) /\ ~Lists(b, "left", a)

TiledPairs ==
    {<<i, j>> \in (1..Len(windows)) \X (1..Len(windows)) :
        i # j /\ windows[i].isTiled /\ windows[j].isTiled}

AsymmetricAfterRecalc ==
    JustRecalculated /\ \E p \in TiledPairs : OneSided(windows[p[1]], windows[p[2]])

CreatedPlain ==
    /\ last.op = "created"
    /\ _shouldTrack(apps[last.id])
    /\ ~_isExcludedApp(apps[last.id].wmClass)

DefaultConfiguration == engine.autoTileEnabled = EnabledEngine.autoTileEnabled

AutoTiled ==
    /\ hasWindow(windows, last.id)
    /\ getWindow(windows, last.id).isTiled
    /\ trace # <<>> /\ trace[Len(trace)].k = "recalc"
    /\ LET before == getTiledWindows(last.pre)
           now == getTiledWindows(windows)
           width == EqualWidth(Len(now), workArea, INNER_GAP)
       IN  IF before = <<>>
           THEN getWindow(windows, last.id).rect = getMaximizedRect(workArea, INNER_GAP)
           ELSE /\ \A i \in 1..Len(now) : now[i].rect.width = width
                /\ \A i \in 1..Len(now) :
                      now[i].id # last.id =>
                          now[i].rect.x < getWindow(windows, last.id).rect.x

C27_AutoTilingByDefault == CreatedPlain /\ DefaultConfiguration => AutoTiled

\* what the variant with auto-tiling does once setAutoTileEnabled(true) was
\* called
AutoTilingWhenSwitchedOn == CreatedPlain /\ engine.autoTileEnabled => AutoTiled

AutoTiledSecond ==
    /\ CreatedPlain /\ engine.autoTileEnabled
    /\ getTiledWindows(last.pre) # <<>>
    /\ AutoTiled

(***************************************************************************)
(* C28: when the bottom (top) edge of the resizing window moves into a     *)
(* bottom (top) neighbour that is taller than MIN_WINDOW_HEIGHT and that   *)
(* the whole movement would make shorter than MIN_WINDOW_HEIGHT, the       *)
(* neighbour ends the tick with height exactly MIN_WINDOW_HEIGHT and its   *)
(* far edge where it was.                                                  *)
(***************************************************************************)
DeltaBottom == getBottomEdge(resize.lastRect) - getBottomEdge(last.preResize.lastRect)
DeltaTop == resize.lastRect.y - last.preResize.lastRect.y

\* The neighbours on that side of the resizing window, before the tick, that
\* the movement by delta would push below the minimum height
Squeezed(direction, shrink) ==
    LET neighbors == getNeighbors(last.pre, last.id, direction)
    IN  {neighbors[i] : i \in {j \in 1..Len(neighbors) :
            /\ neighbors[j].id \in DOMAIN host
            /\ neighbors[j].rect.height > MIN_WINDOW_HEIGHT
            /\ neighbors[j].rect.height - shrink < MIN_WINDOW_HEIGHT}}

SqueezedBelow ==
    IF last.op = "tick" /\ _getResizeEdges(last.preResize.resizeDirection).bottom
       /\ DeltaBottom > 0
    THEN Squeezed("bottom", DeltaBottom) ELSE {}

SqueezedAbove ==
    IF last.op = "tick" /\ _getResizeEdges(last.preResize.resizeDirection).top
       /\ DeltaTop < 0
    THEN Squeezed("top", -DeltaTop) ELSE {}

C28_HeightClampsAtMinimum ==
    /\ \A b \in SqueezedBelow :
          /\ getWindow(windows, b.id).rect.height = MIN_WINDOW_HEIGHT
          /\ getBottomEdge(getWindow(windows, b.id).rect) = getBottomEdge(b.rect)
    /\ \A b \in SqueezedAbove :
          /\ getWindow(windows, b.id).rect.height = MIN_WINDOW_HEIGHT
          /\ getWindow(windows, b.id).rect.y = b.rect.y

\* what the tick does with such a neighbour: nothing
SqueezedNeighbourIsSkipped ==
    \A b \in SqueezedBelow \cup SqueezedAbove :
        /\ getWindow(windows, b.id).rect = b.rect
        /\ host[b.id] = b.rect

SqueezedAboveReached == SqueezedAbove # {}

(***************************************************************************)
(* C29: an equal-distribution redistribution, after a removal or after an  *)
(* auto-tile add, leaves no tiled window narrower than MIN_WINDOW_WIDTH or *)
(* shorter than MIN_WINDOW_HEIGHT, whatever the number of tiled windows    *)
(* and the work area.                                                      *)
(***************************************************************************)
EquallyRedistributed == \E i \in 1..Len(trace) : trace[i].k = "redistribute"

AtLeastMinimum ==
    \A i \in 1..Len(windows) :
        windows[i].isTiled =>
            /\ windows[i].rect.width >= MIN_WINDOW_WIDTH
            /\ windows[i].rect.height >= MIN_WINDOW_HEIGHT

C29_RedistributionKeepsMinimum ==
    last.op \in {"removed", "untile", "created"} /\ EquallyRedistributed => AtLeastMinimum

\* the same for the removals alone, of windows that were snapped by hand
RemovalKeepsMinimum ==
    /\ last.op \in {"removed", "untile"}
    /\ EquallyRedistributed
    /\ \A i \in 1..Len(windows) : windows[i].zone \notin {"auto", "maximize"}
    => AtLeastMinimum

\* with room for the minimum width in every slot the widths are kept
RedistributionWithRoomKeepsMinimum ==
    /\ last.op \in {"removed", "untile", "created"}
    /\ EquallyRedistributed
    /\ workArea.width >= Len(getTiledWindows(windows)) * (MIN_WINDOW_WIDTH + INNER_GAP) + INNER_GAP
    => AtLeastMinimum

(***************************************************************************)
(* C30: on insertion the existing tiled windows are taken from left to     *)
(* right and the new window is placed immediately before the first of them *)
(* whose centre x is greater than the boundary x, after all of them if     *)
(* there is none; the existing windows keep their order, the row starts at *)
(* workArea.x + gap and consecutive windows are exactly gap apart.         *)
(***************************************************************************)
\* The release has run the insert handler and no other one
InsertedAlone ==
    /\ last.op = "release"
    /\ trace # <<>> /\ trace[1].k = "insert"
    /\ \A i \in 1..Len(trace) : trace[i].k # "gapfill"

\* The cursor of the release, from the frame the window was dragged to
ReleaseCursor ==
    [x |-> trace[1].rect.x + (trace[1].rect.width \div 2), y |-> trace[1].rect.y + 10]

BoundaryX ==
    _checkForInsertZone([win |-> last.pre, host |-> host, tr |-> <<>>],
                        last.id, ReleaseCursor).position

\* The tiled windows other than the new one, before the release, left to right
ExistingRow ==
    LET Other(w) == w.id # last.id /\ w.id \in DOMAIN host
    IN  SortByX(Filter(getTiledWindows(last.pre), Other))

ResultingRow == SortByX(getTiledWindows(windows))

Ids(row) == [i \in 1..Len(row) |-> row[i].id]

\* How many existing windows, from the left, have their centre at or left of
\* the boundary before the first one that has it right of the boundary
SlotsBefore(row, position) ==
    LET Right(i) == 2 * row[i].rect.x + row[i].rect.width > 2 * position
        rights == {i \in 1..Len(row) : Right(i)}
    IN  IF rights = {} THEN Len(row)
        ELSE (CHOOSE i \in rights : \A j \in rights : i <= j) - 1

ExpectedOrder ==
    LET before == SlotsBefore(ExistingRow, BoundaryX)
    IN  SubSeq(Ids(ExistingRow), 1, before) \o <<last.id>>
            \o SubSeq(Ids(ExistingRow), before + 1, Len(ExistingRow))

GapApart(row) ==
    /\ row[1].rect.x = workArea.x + INNER_GAP
    /\ \A i \in 1..(Len(row) - 1) :
          row[i + 1].rect.x = getRightEdge(row[i].rect) + INNER_GAP

C30_InsertionOrder ==
    InsertedAlone /\ ExistingRow # <<>> =>
        /\ Ids(ResultingRow) = ExpectedOrder
        /\ GapApart(ResultingRow)

InsertionOrderAlone ==
    InsertedAlone /\ ExistingRow # <<>> => Ids(ResultingRow) = ExpectedOrder

\* The row as it stands on the screen
HostRow ==
    LET tiled == getTiledWindows(windows)
    IN  SortByX([i \in 1..Len(tiled) |-> [id |-> tiled[i].id, rect |-> host[tiled[i].id]]])

InsertedRowOnScreen ==
    InsertedAlone /\ ExistingRow # <<>> =>
        /\ Ids(HostRow) = ExpectedOrder
        /\ GapApart(HostRow)

\* The new window went between two existing ones
InsertedBetween ==
    /\ InsertedAlone
    /\ Len(ExistingRow) = 2
    /\ SlotsBefore(ExistingRow, BoundaryX) = 1
    /\ Ids(ResultingRow) = ExpectedOrder

InsertedGapApart == InsertedAlone /\ ExistingRow # <<>> /\ GapApart(ResultingRow)

(***************************************************************************)
(* C31: the overlap correction recurses at most once: the nested call of   *)
(* _correctLayoutOverlaps never calls itself again, whatever the tiled     *)
(* windows are and also when the host overrides requested widths, so the   *)
(* correction terminates.                                                  *)
(***************************************************************************)
\* One handler of these specifications calls the correction once, so the
\* passes in the trace are the outer call and the calls nested in it
C31_CorrectionRecursesOnce ==
    /\ Count("correct") <= 2
    /\ Count("unbounded") = 0

\* the correction did not come to an end within MaxCorrectionPasses passes
CorrectionUnbounded == Count("unbounded") > 0

\* when the host has applied every width the registry holds, the nested call
\* is the last one
HostKeptWidths ==
    \A i \in 1..Len(windows) :
        windows[i].id \in DOMAIN host => host[windows[i].id].width = windows[i].rect.width

RecursesOnceWhenWidthsApplied == HostKeptWidths => C31_CorrectionRecursesOnce

CorrectedTwice == Count("correct") = 2 /\ Count("unbounded") = 0

(***************************************************************************)
(* C32: when the overlap correction finds overflow > 0 and the primary     *)
(* window is wider than overflow + MIN_WINDOW_WIDTH, then after the        *)
(* correction and its recursive pass have finished no tiled window's right *)
(* edge lies beyond workArea.x + workArea.width, wherever the primary      *)
(* window sits in the row.                                                 *)
(***************************************************************************)
\* The correction has shrunk the primary window (only that branch makes the
\* nested call) and has come to its end
ShrunkAndFinished == Count("correct") >= 2 /\ Count("unbounded") = 0

WithinWorkArea(rect) == getRightEdge(rect) <= workArea.x + workArea.width

C32_ShrinkFitsWorkArea ==
    ShrunkAndFinished =>
        \A i \in 1..Len(windows) :
            windows[i].isTiled /\ windows[i].id \in DOMAIN host =>
                /\ WithinWorkArea(windows[i].rect)
                /\ WithinWorkArea(host[windows[i].id])

\* the same when the host has applied every width it was asked for
ShrinkFitsWhenWidthsApplied == HostKeptWidths => C32_ShrinkFitsWorkArea

(***************************************************************************)
(* C33: the overlap correction is idempotent: run a second time directly   *)
(* after a first run, for the same primary window and on a host that       *)
(* applies requested positions, _correctLayoutOverlaps issues no           *)
(* move/resize and changes no registry rectangle.                          *)
(***************************************************************************)
\* The handler of this state has run the correction to its end
Corrected == Count("correct") >= 1 /\ Count("unbounded") = 0

CorrectedPrimary == trace[CHOOSE i \in 1..Len(trace) : trace[i].k = "correct"].id

\* The second run, started in this state
CorrectedAgain == _correctLayoutOverlaps(World, CorrectedPrimary)

Writes(tr) == {i \in 1..Len(tr) : tr[i].k \in {"move", "setRect", "set"}}

CursorInside(cursor, rect) ==
    /\ cursor.x >= rect.x /\ cursor.x <= rect.x + rect.width
    /\ cursor.y >= rect.y /\ cursor.y <= rect.y + rect.height

GapZoneWellFormed(rect, cursor) ==
    /\ rect.width >= MIN_WINDOW_WIDTH
    /\ cursor.x >= rect.x /\ cursor.x <= rect.x + rect.width
    /\ rect.y = workArea.y + INNER_GAP
    /\ rect.height = workArea.height - 2 * INNER_GAP

GapZoneInWorkArea(rect) ==
    /\ rect.x >= workArea.x + INNER_GAP
    /\ rect.x + rect.width <= workArea.x + workArea.width - INNER_GAP

CursorOutsideOthers(win, cursor, dragged) ==
    \A i \in 1..Len(win) :
        win[i].isTiled /\ win[i].id # dragged /\ win[i].id \in DOMAIN host =>
            ~CursorInside(cursor, win[i].rect)

\* The release has committed the gap zone found at the cursor, and nothing else
GapFilledAlone ==
    /\ last.op = "release"
    /\ Len(trace) >= 2 /\ trace[1].k = "gapfill" /\ trace[2].k = "move"

C34_GapZoneProperties ==
    GapFilledAlone =>
        /\ GapZoneWellFormed(trace[2].rect, ReleaseCursor)
        /\ GapZoneInWorkArea(trace[2].rect)
        /\ CursorOutsideOthers(last.pre, ReleaseCursor, last.id)

\* the claim without 'lies between workArea.x + gap and workArea.x +
\* workArea.width - gap'
GapZoneWellFormedAtCursor ==
    GapFilledAlone =>
        /\ GapZoneWellFormed(trace[2].rect, ReleaseCursor)
        /\ CursorOutsideOthers(last.pre, ReleaseCursor, last.id)

GapZoneOutsideWorkArea == GapFilledAlone /\ ~GapZoneInWorkArea(trace[2].rect)

(***************************************************************************)
(* C35: redistribution after a removal handles stale entries by filtering: *)
(* a registry entry whose host window no longer exists gets no slot in the *)
(* new row, and does not prevent the remaining existing tiled windows from *)
(* being redistributed and recalculateNeighbors() from running.            *)
(***************************************************************************)
Stale(w) == w.isTiled /\ w.id \notin DOMAIN host
Live(w) == w.isTiled /\ w.id \in DOMAIN host

\* The removal handler has run for a tiled window while the registry held a
\* tiled entry without a host window and a tiled entry with one
RemovedBesideStale ==
    /\ last.op \in {"removed", "untile"}
    /\ ~hasWindow(windows, last.id)
    /\ hasWindow(last.pre, last.id) /\ getWindow(last.pre, last.id).isTiled
    /\ SelectSeq(windows, Stale) # <<>>
    /\ SelectSeq(windows, Live) # <<>>

StaleGetsNoSlot ==
    \A i \in 1..Len(windows) :
        Stale(windows[i]) => windows[i].rect = getWindow(last.pre, windows[i].id).rect

LiveAreRedistributed ==
    /\ SideBySide(SelectSeq(windows, Live),
                  EqualWidth(Len(SelectSeq(windows, Live)), workArea, INNER_GAP))
    /\ trace # <<>> /\ trace[Len(trace)].k = "recalc"

C35_StaleEntriesFiltered ==
    RemovedBesideStale => StaleGetsNoSlot /\ LiveAreRedistributed

\* the stale entry is the first tiled one and the redistribution is given up
StaleFirstStopsRedistribution ==
    /\ RemovedBesideStale
    /\ Stale(getTiledWindows(windows)[1])
    /\ \A i \in 1..Len(trace) : trace[i].k # "recalc"

\* the stale entry is not the first one and is given a slot
StaleGetsSlot == RemovedBesideStale /\ ~StaleGetsNoSlot

(***************************************************************************)
(* C36: redistribution after a removal preserves the left-to-right order   *)
(* of the remaining tiled windows: if A.rect.x < B.rect.x before the       *)
(* removal then A.rect.x < B.rect.x after the redistribution, for every    *)
(* history of snaps, inserts and swaps.                                    *)
(***************************************************************************)
\* Pairs of windows that are tiled before and after the removal
RemainingPairs ==
    {p \in (1..Len(windows)) \X (1..Len(windows)) :
        /\ windows[p[1]].isTiled /\ windows[p[2]].isTiled
        /\ hasWindow(last.pre, windows[p[1]].id) /\ getWindow(last.pre, windows[p[1]].id).isTiled
        /\ hasWindow(last.pre, windows[p[2]].id) /\ getWindow(last.pre, windows[p[2]].id).isTiled}

LeftOfBefore(p) ==
    getWindow(last.pre, windows[p[1]].id).rect.x < getWindow(last.pre, windows[p[2]].id).rect.x

C36_RemovalKeepsOrder ==
    Redistributed =>
        \A p \in RemainingPairs : LeftOfBefore(p) => windows[p[1]].rect.x < windows[p[2]].rect.x

\* what the code keeps is the order of the registry's entries
RemovalKeepsRegistryOrder ==
    Redistributed =>
        \A p \in RemainingPairs : p[1] < p[2] => windows[p[1]].rect.x < windows[p[2]].rect.x

(***************************************************************************)
(* C37: a single drag release commits at most one layout change: at most   *)
(* one of snap-detected, swap-detected, insert-detected and                *)
(* gap-fill-detected is emitted to the TileManager for one release, under  *)
(* every interleaving of cursor moves and detector polls before it.        *)
(***************************************************************************)
EmittedOnRelease ==
    Count("snap") + Count("swap") + Count("insert") + Count("gapfill")

C37_OneCommitPerRelease == last.op = "release" => EmittedOnRelease <= 1

InsertAndGapFill == last.op = "release" /\ Count("insert") = 1 /\ Count("gapfill") = 1
SnapAndInsert == last.op = "release" /\ Count("snap") = 1 /\ Count("insert") = 1

(***************************************************************************)
(* C38: gap-fill never places a window on top of another tiled window: the *)
(* rectangle of every reported gap zone has no area in common with the     *)
(* registry rectangle of any tiled window other than the dragged one, for  *)
(* every arrangement of tiled windows.                                     *)
(***************************************************************************)
AreaInCommon(a, b) ==
    /\ a.x < b.x + b.width /\ b.x < a.x + a.width
    /\ a.y < b.y + b.height /\ b.y < a.y + a.height

\* The tiled windows, before the release, that the committed gap zone covers
\* in part
CoveredByGapZone ==
    {i \in 1..Len(last.pre) :
        /\ last.pre[i].isTiled
        /\ last.pre[i].id # last.id
        /\ last.pre[i].id \in DOMAIN host
        /\ AreaInCommon(trace[2].rect, last.pre[i].rect)}

C38_GapZoneCoversNoWindow == GapFilledAlone => CoveredByGapZone = {}

-----------------------------------------------------------------------------
(* C39: no swap preview outlives its drag: after the end of every move grab *)
(* the swap overlay is hidden, whether the swap was delivered, cancelled by *)
(* an edge zone, or dropped because an entry had left the registry          *)

DragEnded == last.op = "release" /\ drag.window = 0

C39_SwapPreviewHiddenAfterDrag == DragEnded => ~engine.swapOverlayVisible

\* What the code does keep: a delivered swap hides the preview
SwapDeliveredHidesPreview ==
    DragEnded /\ swapDelivered(trace) => ~engine.swapOverlayVisible

SwapDeliveredReached == DragEnded /\ swapDelivered(trace)

\* The release in an edge zone leaves the preview on the screen
PreviewLeftByEdgeZone ==
    /\ DragEnded /\ engine.swapOverlayVisible
    /\ trace # <<>> /\ trace[1].k = "snap"

\* So does a release outside the edge zones whose target has left the
\* registry (the pointer holds the dragged frame at the middle of its top)
PreviewLeftByClosedTarget ==
    /\ DragEnded /\ engine.swapOverlayVisible
    /\ trace = <<>>
    /\ last.id \in DOMAIN host
    /\ ~_isInEdgeZone(host[last.id].x + (host[last.id].width \div 2), host[last.id].y + 10)

-----------------------------------------------------------------------------
(* C40: after every resize polling tick the registry rectangles of the      *)
(* resized window and of each left or right neighbour adjusted in that tick *)
(* have no area in common, also when the neighbour was clamped to exactly   *)
(* MIN_WINDOW_WIDTH                                                         *)

Ticked == last.op = "tick" /\ hasWindow(windows, last.id)

AdjustedInTick ==
    {trace[i].id : i \in {j \in 1..Len(trace) : trace[j].k = "adjustH"}}

ClampedInTick ==
    {n \in AdjustedInTick :
        /\ hasWindow(windows, n) /\ hasWindow(last.pre, n)
        /\ getWindow(windows, n).rect.width = MIN_WINDOW_WIDTH
        /\ getWindow(last.pre, n).rect.width > MIN_WINDOW_WIDTH}

ApartFromResized(n) ==
    hasWindow(windows, n) =>
        ~AreaInCommon(getWindow(windows, last.id).rect, getWindow(windows, n).rect)

C40_AdjustedNeighboursDoNotOverlap ==
    Ticked => \A n \in AdjustedInTick : ApartFromResized(n)

\* The clamped neighbours alone: the resized window is stored with the whole
\* movement
ClampedNeighboursDoNotOverlap ==
    Ticked => \A n \in ClampedInTick : ApartFromResized(n)

\* The neighbours that took the whole movement: they overlap as well in the
\* tick after a reverted one, whose movement is measured from the frame the
\* revert has undone
WholeAdjustedDoNotOverlap ==
    Ticked => \A n \in AdjustedInTick \ ClampedInTick : ApartFromResized(n)

WholeAdjustedReached == Ticked /\ AdjustedInTick \ ClampedInTick # {}

====
